---------------------------- MODULE Spec2Model ----------------------------
(***************************************************************************)
(* Variational L1 Wasserstein distance engine of DarSIA                    *)
(* (src/src/darsia/measure/wasserstein.py): the finite-volume operators,   *)
(* the Newton and the Split-Bregman solver loops, and the dispatcher       *)
(* __call__, as a state machine.                                           *)
(*                                                                         *)
(* Numbers.  numpy's float64 values are modelled by exact rationals        *)
(* <<n, d>> (d > 0, lowest terms) extended by the three non-finite values  *)
(* of IEEE arithmetic: NaN = <<0, 0>>, +inf = <<1, 0>>, -inf = <<-1, 0>>.  *)
(* Rounding is not modelled; 0/0, x/0, inf - inf and 0 * inf are.          *)
(* A Euclidean norm is kept exactly: Sqrt is defined on squares of         *)
(* rationals only and the inputs are chosen so that nothing else arises.   *)
(***************************************************************************)
EXTENDS Integers, Sequences, FiniteSets, TLC

-----------------------------------------------------------------------------
(* ---------------- extended rational arithmetic (float64) --------------- *)

\* a sequence given as a function on 1..n, with its entries evaluated
Strict(v) == SubSeq(v, 1, Len(v))

IAbs(n) == IF n < 0 THEN -n ELSE n

ISgn(n) == IF n > 0 THEN 1 ELSE IF n < 0 THEN -1 ELSE 0

RECURSIVE Gcd(_, _)
Gcd(a, b) == IF b = 0 THEN a ELSE Gcd(b, a % b)

\* n / d in lowest terms, given g = gcd(|n|, |d|), d # 0
Lowest(n, d, g) == <<ISgn(d) * (n \div g), IAbs(d) \div g>>

Rat(n, d) == IF d = 0 THEN <<ISgn(n), 0>> ELSE Lowest(n, d, Gcd(IAbs(n), IAbs(d)))

NaN == <<0, 0>>
PosInf == <<1, 0>>
NegInf == <<-1, 0>>
Zero == <<0, 1>>
One == <<1, 1>>

IsNaN(a) == a = NaN
IsFinite(a) == a[2] > 0

RNeg(a) == <<-a[1], a[2]>>

RAbs(a) == <<IAbs(a[1]), a[2]>>

\* a + b for finite a, b over the least common denominator, g = gcd(a[2], b[2])
AddOver(a, b, g) == Rat(a[1] * (b[2] \div g) + b[1] * (a[2] \div g), (a[2] \div g) * b[2])

\* a + b: inf + (-inf) = NaN
RAdd(a, b) ==
  IF a[2] = 0 /\ b[2] = 0 THEN (IF a = b THEN a ELSE NaN)
  ELSE IF a[2] = 0 THEN a
  ELSE IF b[2] = 0 THEN b
  ELSE AddOver(a, b, Gcd(a[2], b[2]))

RSub(a, b) == RAdd(a, RNeg(b))

\* a * b for finite nonzero a, b, g = gcd(|a[1]|, b[2]), h = gcd(|b[1]|, a[2])
MulCancelled(a, b, g, h) == <<(a[1] \div g) * (b[1] \div h), (a[2] \div h) * (b[2] \div g)>>

\* a * b: 0 * inf = NaN
RMul(a, b) ==
  IF a[2] = 0 \/ b[2] = 0 THEN <<ISgn(a[1]) * ISgn(b[1]), 0>>
  ELSE IF a[1] = 0 \/ b[1] = 0 THEN Zero
  ELSE MulCancelled(a, b, Gcd(IAbs(a[1]), b[2]), Gcd(IAbs(b[1]), a[2]))

\* 1 / b: 1/0 = +inf, 1/(+-inf) = 0, 1/NaN = NaN
RInv(b) ==
  IF b[2] = 0 THEN (IF b[1] = 0 THEN NaN ELSE Zero)
  ELSE IF b[1] = 0 THEN PosInf
  ELSE <<ISgn(b[1]) * b[2], IAbs(b[1])>>

\* a / b: 0/0 = NaN, x/0 = +-inf
RDiv(a, b) == RMul(a, RInv(b))

\* p1/q1 < p2/q2 for p >= 0, q > 0, by the continued-fraction expansion
\* (no product is formed, so 1e-6 is compared without overflow)
RECURSIVE LtPos(_, _, _, _)
LtPos(p1, q1, p2, q2) ==
  LET i1 == p1 \div q1
      i2 == p2 \div q2
      r1 == p1 % q1
      r2 == p2 % q2
  IN  IF i1 # i2 THEN i1 < i2
      ELSE IF r2 = 0 THEN FALSE
      ELSE IF r1 = 0 THEN TRUE
      ELSE LtPos(q2, r2, q1, r1)

\* a < b as numpy evaluates it: False whenever an operand is NaN
RLt(a, b) ==
  IF IsNaN(a) \/ IsNaN(b) THEN FALSE
  ELSE IF a[2] = 0 \/ b[2] = 0 THEN
         (IF a = b THEN FALSE
          ELSE IF a = NegInf \/ b = PosInf THEN TRUE ELSE FALSE)
  ELSE IF a[1] < 0 /\ b[1] >= 0 THEN TRUE
  ELSE IF a[1] >= 0 /\ b[1] < 0 THEN FALSE
  ELSE LtPos(IF a[1] >= 0 THEN a[1] ELSE -b[1], IF a[1] >= 0 THEN a[2] ELSE b[2],
             IF a[1] >= 0 THEN b[1] ELSE -a[1], IF a[1] >= 0 THEN b[2] ELSE a[2])

RGt(a, b) == RLt(b, a)

\* np.maximum: NaN if an operand is NaN
RMax(a, b) == IF IsNaN(a) \/ IsNaN(b) THEN NaN ELSE IF RLt(a, b) THEN b ELSE a

\* integer square root of a perfect square (no value otherwise)
ISqrt(n) == CHOOSE r \in 0..n : r * r = n

\* sqrt of the square of a rational; sqrt(NaN) = NaN, sqrt(+inf) = +inf
Sqrt(a) ==
  IF a[2] = 0 THEN (IF a = PosInf THEN PosInf ELSE NaN)
  ELSE <<ISqrt(a[1]), ISqrt(a[2])>>

\* np.linalg.norm((a, b), 2)
Hypot(a, b) ==
  IF IsNaN(a) \/ IsNaN(b) THEN NaN
  ELSE IF b = Zero THEN RAbs(a)
  ELSE IF a = Zero THEN RAbs(b)
  ELSE Sqrt(RAdd(RMul(a, a), RMul(b, b)))

-----------------------------------------------------------------------------
(* ------------------------- vectors and matrices ------------------------ *)

ZeroVec(n) == Strict([i \in 1..n |-> Zero])

VAdd(u, v) == Strict([i \in 1..Len(u) |-> RAdd(u[i], v[i])])

VSub(u, v) == Strict([i \in 1..Len(u) |-> RSub(u[i], v[i])])

VScale(c, v) == Strict([i \in 1..Len(v) |-> RMul(c, v[i])])

VMul(u, v) == Strict([i \in 1..Len(u) |-> RMul(u[i], v[i])])

RECURSIVE SumTo(_, _)
SumTo(v, k) == IF k = 0 THEN Zero ELSE RAdd(SumTo(v, k - 1), v[k])

VSum(v) == SumTo(v, Len(v))

Dot(u, v) == VSum(VMul(u, v))

\* x[lo-1 : hi] of a 1-based sequence: entries lo..hi
Slice(v, lo, hi) == Strict([i \in 1..(hi - lo + 1) |-> v[lo + i - 1]])

AllFinite(v) == \A i \in 1..Len(v) : IsFinite(v[i])

\* sum of the entries v[j], j in 1..k, that the index set S selects
RECURSIVE SumOver(_, _, _)
SumOver(v, S, k) == IF k = 0 THEN Zero ELSE IF k \in S THEN RAdd(SumOver(v, S, k - 1), v[k]) ELSE SumOver(v, S, k - 1)

\* A.dot(v) for a scipy.sparse matrix given as a sequence of rows: only the
\* stored (nonzero) entries of A meet v, so a zero of A times NaN adds nothing
MatVec(A, v) == Strict([i \in 1..Len(A) |-> SumOver(VMul(A[i], v), {j \in 1..Len(v) : A[i][j] # Zero}, Len(v))])

MatFinite(A) == \A i \in 1..Len(A) : AllFinite(A[i])

\* np.linalg.norm(v, 2) ** 2
NormSq(v) == Dot(v, v)

\* p / q < 10 ** -k for p >= 0, q > 0 (no power of ten is formed)
RECURSIVE LtPow(_, _, _)
LtPow(p, q, k) == IF k = 0 THEN p < q ELSE LtPow(p, (q + 9) \div 10, k - 1)

\* a < 10 ** -k as numpy evaluates it.  A tolerance of the solvers is a
\* power of ten, 1e-6 or 1e-12, and is kept as its exponent k.
LtTol(a, k) ==
  IF IsNaN(a) THEN FALSE
  ELSE IF a[2] = 0 THEN a = NegInf
  ELSE IF a[1] < 0 THEN TRUE
  ELSE LtPow(a[1], a[2], k)

\* np.linalg.norm(v, 2) < 10 ** -k for a norm kept as its square s
NormLtTol(s, k) == LtTol(s, 2 * k)

\* Gauss-Jordan elimination on the augmented matrix M (rows 1..n, columns
\* 1..n+1), columns k..n still to do; the pivot is the first nonzero entry
\* of column k at or below row k.
PivotRow(M, k, n) == CHOOSE r \in k..n : M[r][k] # Zero /\ \A q \in k..(r - 1) : M[q][k] = Zero

ScaledRow(row, piv) == Strict([j \in 1..Len(row) |-> RDiv(row[j], piv)])

\* rows k and p exchanged, the pivot row (scaled to pivot 1) now in row k
Swapped(M, k, p, prow) == Strict([r \in 1..Len(M) |-> IF r = k THEN prow ELSE IF r = p THEN M[k] ELSE M[r]])

\* column k cleared in every row but row k
Cleared(M, k) ==
  Strict([r \in 1..Len(M) |->
     IF r = k \/ M[r][k] = Zero THEN M[r]
     ELSE Strict([j \in 1..Len(M[r]) |-> RSub(M[r][j], RMul(M[r][k], M[k][j]))])])

Pivoted(M, k, p) == Cleared(Swapped(M, k, p, ScaledRow(M[p], M[p][k])), k)

\* Result: [ok |-> FALSE] when a column has no pivot (the matrix is
\* singular), else the reduced matrix.
RECURSIVE GaussJordan(_, _, _)
GaussJordan(M, k, n) ==
  IF k > n THEN [ok |-> TRUE, M |-> M]
  ELSE IF \A r \in k..n : M[r][k] = Zero THEN [ok |-> FALSE, M |-> M]
  ELSE GaussJordan(Pivoted(M, k, PivotRow(M, k, n)), k + 1, n)

Augmented(A, b) == Strict([r \in 1..Len(b) |-> Append(A[r], b[r])])

LastColumn(g, n) ==
  IF g.ok THEN [status |-> "ok", x |-> Strict([i \in 1..n |-> g.M[i][n + 1]])]
  ELSE [status |-> "singular", x |-> Strict([i \in 1..n |-> NaN])]

\* sps.linalg.splu(A).solve(b) in exact arithmetic: status "ok" with the
\* solution, "singular" (splu raises RuntimeError: factor is exactly
\* singular), or "nonfinite" when A or b holds inf or NaN
LinSolve(A, b) ==
  IF ~MatFinite(A) \/ ~AllFinite(b) THEN [status |-> "nonfinite", x |-> Strict([i \in 1..Len(b) |-> NaN])]
  ELSE LastColumn(GaussJordan(Augmented(A, b), 1, Len(b)), Len(b))

-----------------------------------------------------------------------------
(* --------- grid and operators: VariationalWassersteinDistance._setup --- *)
(* Cells and faces carry their Python (0-based) numbers; a vector over     *)
(* them is a sequence whose entry k + 1 belongs to number k.               *)

Ny(sh) == sh[1]
Nx(sh) == sh[2]

\* entry k of a Python sequence
At(v, k) == v[k + 1]

num_cells(sh) == Ny(sh) * Nx(sh)

num_vertical_faces(sh) == Ny(sh) * (Nx(sh) - 1)

num_horizontal_faces(sh) == (Ny(sh) - 1) * Nx(sh)

num_faces(sh) == num_vertical_faces(sh) + num_horizontal_faces(sh)

\* numbering_cells[i, j]
Cell(sh, i, j) == i * Nx(sh) + j

\* vertical_faces[i, j] and horizontal_faces[i, j]
VFace(sh, i, j) == i * (Nx(sh) - 1) + j

HFace(sh, i, j) == num_vertical_faces(sh) + i * Nx(sh) + j

IsVertical(sh, f) == f < num_vertical_faces(sh)

\* a pin at the first cell
flat_corner_cell(sh) == Cell(sh, 0, 0)

\* np.ravel_multi_index((shape[0] // 2, shape[1] // 2), shape)
flat_center_cell(sh) == Cell(sh, Ny(sh) \div 2, Nx(sh) \div 2)

\* a connectivity with the two cells of every face exchanged
connectivity_reversed(sh, f, side) ==
  IF IsVertical(sh, f)
  THEN Cell(sh, f \div (Nx(sh) - 1), (f % (Nx(sh) - 1)) + 1 - side)
  ELSE Cell(sh, ((f - num_vertical_faces(sh)) \div Nx(sh)) + 1 - side, (f - num_vertical_faces(sh)) % Nx(sh))

\* connectivity[f, side]
connectivity(sh, f, side) ==
  IF IsVertical(sh, f)
  THEN Cell(sh, f \div (Nx(sh) - 1), (f % (Nx(sh) - 1)) + side)
  ELSE Cell(sh, ((f - num_vertical_faces(sh)) \div Nx(sh)) + side, (f - num_vertical_faces(sh)) % Nx(sh))

\* connectivity_cell_to_vertical_face[c, side]: initialised with -1
connectivity_cell_to_vertical_face(sh, c, side) ==
  LET i == c \div Nx(sh)
      j == c % Nx(sh)
  IN  IF side = 0 THEN (IF j >= 1 THEN VFace(sh, i, j - 1) ELSE -1)
      ELSE (IF j <= Nx(sh) - 2 THEN VFace(sh, i, j) ELSE -1)

\* connectivity_cell_to_horizontal_face[c, side]: initialised with 0
connectivity_cell_to_horizontal_face(sh, c, side) ==
  LET i == c \div Nx(sh)
      j == c % Nx(sh)
  IN  IF side = 0 THEN (IF i >= 1 THEN HFace(sh, i - 1, j) ELSE 0)
      ELSE (IF i <= Ny(sh) - 2 THEN HFace(sh, i, j) ELSE 0)

\* a divergence without the sign at the second cell of a face
div_entry_unsigned(sh, vs, c, f) ==
  IF c = connectivity(sh, f, 0) \/ c = connectivity(sh, f, 1) THEN <<IF IsVertical(sh, f) THEN At(vs, 0) ELSE At(vs, 1), 1>>
  ELSE Zero

\* a divergence with voxel_size[1] on vertical and voxel_size[0] on
\* horizontal faces
div_entry_axes_exchanged(sh, vs, c, f) ==
  IF c = connectivity(sh, f, 0) THEN <<IF IsVertical(sh, f) THEN At(vs, 1) ELSE At(vs, 0), 1>>
  ELSE IF c = connectivity(sh, f, 1) THEN <<IF IsVertical(sh, f) THEN -At(vs, 1) ELSE -At(vs, 0), 1>>
  ELSE Zero

\* self.div[c, f]: +-voxel_size[0] on vertical, +-voxel_size[1] on horizontal faces
div_entry(sh, vs, c, f) ==
  IF c = connectivity(sh, f, 0) THEN <<IF IsVertical(sh, f) THEN At(vs, 0) ELSE At(vs, 1), 1>>
  ELSE IF c = connectivity(sh, f, 1) THEN <<IF IsVertical(sh, f) THEN -At(vs, 0) ELSE -At(vs, 1), 1>>
  ELSE Zero

div(sh, vs) == Strict([c \in 1..num_cells(sh) |-> Strict([f \in 1..num_faces(sh) |-> div_entry(sh, vs, c - 1, f - 1)])])

Transpose(A, ncols) == Strict([j \in 1..ncols |-> Strict([i \in 1..Len(A) |-> A[i][j]])])

\* np.prod(self.voxel_size)
VoxelVolume(vs) == At(vs, 0) * At(vs, 1)

\* self.mass_matrix_cells: diag(prod(voxel_size))
mass_matrix_cells(sh, vs) == Strict([c \in 1..num_cells(sh) |-> Strict([d \in 1..num_cells(sh) |-> IF c = d THEN Rat(VoxelVolume(vs), 1) ELSE Zero])])

\* couplings entered in one order only
MassCouplingsOneWay(sh) ==
  {<<connectivity_cell_to_vertical_face(sh, c, 0), connectivity_cell_to_vertical_face(sh, c, 1)>> : c \in {Cell(sh, i, j) : i \in 0..(Ny(sh) - 1), j \in 1..(Nx(sh) - 2)}}
    \cup {<<connectivity_cell_to_horizontal_face(sh, c, 0), connectivity_cell_to_horizontal_face(sh, c, 1)>> : c \in {Cell(sh, i, j) : i \in 1..(Ny(sh) - 2), j \in 0..(Nx(sh) - 1)}}

\* the (row, col) pairs of the 1/6 couplings of the RT0 mass matrix: the two
\* vertical faces of every cell of numbering_cells[:, 1:-1], the two
\* horizontal faces of every cell of numbering_cells[1:-1, :], both orders
MassCouplings(sh) ==
  UNION {{<<connectivity_cell_to_vertical_face(sh, c, k), connectivity_cell_to_vertical_face(sh, c, 1 - k)>> : c \in {Cell(sh, i, j) : i \in 0..(Ny(sh) - 1), j \in 1..(Nx(sh) - 2)}}
           \cup {<<connectivity_cell_to_horizontal_face(sh, c, k), connectivity_cell_to_horizontal_face(sh, c, 1 - k)>> : c \in {Cell(sh, i, j) : i \in 1..(Ny(sh) - 2), j \in 0..(Nx(sh) - 1)}}
         : k \in {0, 1}}

\* self.mass_matrix_faces: lumped 1/2 * prod(voxel_size) on the diagonal, or
\* the RT0 matrix with 2/3 on the diagonal and 1/6 on the couplings
mass_matrix_faces(sh, vs, lumping) ==
  Strict([f \in 1..num_faces(sh) |-> Strict([g \in 1..num_faces(sh) |->
     IF f = g THEN Rat(IF lumping THEN VoxelVolume(vs) ELSE 4 * VoxelVolume(vs), IF lumping THEN 2 ELSE 6)
     ELSE IF ~lumping /\ <<f - 1, g - 1>> \in MassCouplings(sh) THEN Rat(VoxelVolume(vs), 6)
     ELSE Zero])])

\* the horizontal faces (side 0, side 1) of the cells cl, cr for the sides in
\* sides, in the order cl side, ..., cr side, ...
HFacesOf(sh, cl, cr, sides) ==
  Strict([k \in 1..(2 * Len(sides)) |->
     connectivity_cell_to_horizontal_face(sh, IF k <= Len(sides) THEN cl ELSE cr, sides[IF k <= Len(sides) THEN k ELSE k - Len(sides)])])

VFacesOf(sh, cl, cr, sides) ==
  Strict([k \in 1..(2 * Len(sides)) |->
     connectivity_cell_to_vertical_face(sh, IF k <= Len(sides) THEN cl ELSE cr, sides[IF k <= Len(sides) THEN k ELSE k - Len(sides)])])

\* one side only collected in the inner positions
OrthSidesInnerOnce(pos, last) ==
  (IF pos = 0 THEN <<1>> ELSE <<>>) \o (IF pos >= 1 /\ pos <= last - 1 THEN <<0>> ELSE <<>>) \o (IF pos = last THEN <<0>> ELSE <<>>)

\* the sides np.concatenate collects for a face in position pos of 0..last:
\* side 1 in the first position, sides 0 and 1 inside, side 0 in the last
OrthSides(pos, last) ==
  (IF pos = 0 THEN <<1>> ELSE <<>>) \o (IF pos >= 1 /\ pos <= last - 1 THEN <<0, 1>> ELSE <<>>) \o (IF pos = last THEN <<0>> ELSE <<>>)

\* the column indices that orthogonal_face_average_cols holds for row f with
\* the cells cl, cr (a face of a one-row grid is in the top and in the
\* bottom row); the matrix sums the entries of equal indices
OrthColsOf(sh, f, cl, cr) ==
  IF IsVertical(sh, f)
  THEN HFacesOf(sh, cl, cr, OrthSides(f \div (Nx(sh) - 1), Ny(sh) - 1))
  ELSE VFacesOf(sh, cl, cr, OrthSides((f - num_vertical_faces(sh)) % Nx(sh), Nx(sh) - 1))

OrthCols(sh, f) == OrthColsOf(sh, f, connectivity(sh, f, 0), connectivity(sh, f, 1))

\* a -1 of connectivity_cell_to_vertical_face among the column indices
orthogonal_face_average_cols_negative(sh) ==
  \E f \in 0..(num_faces(sh) - 1) : \E k \in 1..Len(OrthCols(sh, f)) : OrthCols(sh, f)[k] < 0

Occurrences(cols, g) == Cardinality({k \in 1..Len(cols) : cols[k] = g})

\* self.orthogonal_face_average[f, g]: 0.25 per entry, duplicates summed
orthogonal_face_average(sh) ==
  Strict([f \in 1..num_faces(sh) |-> Strict([g \in 1..num_faces(sh) |-> Rat(Occurrences(OrthCols(sh, f - 1), g - 1), 4)])])

-----------------------------------------------------------------------------
(* ------------------- projections and effective quantities -------------- *)

\* 0.5 * flat_flux[face] where the cell has the face, else nothing
HalfFlux(flat_flux, has_face, face) == IF has_face THEN RMul(Rat(1, 2), At(flat_flux, face)) ELSE Zero

\* cell_flux[i, j] = <<x, y>>: half the flux of every vertical face of the
\* cell in x, half the flux of every horizontal face in y
cell_flux_at(sh, flat_flux, i, j) ==
  <<RAdd(HalfFlux(flat_flux, j <= Nx(sh) - 2, VFace(sh, i, j)), HalfFlux(flat_flux, j >= 1, VFace(sh, i, j - 1))),
    RAdd(HalfFlux(flat_flux, i <= Ny(sh) - 2, HFace(sh, i, j)), HalfFlux(flat_flux, i >= 1, HFace(sh, i - 1, j)))>>

\* face_to_cell
face_to_cell(sh, flat_flux) ==
  Strict([c \in 1..num_cells(sh) |-> cell_flux_at(sh, flat_flux, (c - 1) \div Nx(sh), (c - 1) % Nx(sh))])

\* np.linalg.norm(cell_flux, 2, axis=-1), raveled
RowNorms(cell_flux) == Strict([c \in 1..Len(cell_flux) |-> Hypot(cell_flux[c][1], cell_flux[c][2])])

cell_flux_norm(sh, flat_flux) == RowNorms(face_to_cell(sh, flat_flux))

\* cell_to_face(cell_qty, "arithmetic"): the mean of the two cells of a face
cell_to_face(sh, cell_qty) ==
  Strict([f \in 1..num_faces(sh) |-> RMul(Rat(1, 2), RAdd(At(cell_qty, connectivity(sh, f - 1, 0)), At(cell_qty, connectivity(sh, f - 1, 1))))])

\* np.maximum(v, c), entry by entry
VMax(v, c) == Strict([k \in 1..Len(v) |-> RMax(v[k], c)])

\* np.linalg.norm of the pairs (u[f], v[f])
PairNorms(u, v) == Strict([f \in 1..Len(u) |-> Hypot(u[f], v[f])])

\* vector_face_flux_norm(flat_flux, mode) for mode in NormModes
vector_face_flux_norm(sh, flat_flux, mode, regularization) ==
  IF mode = "cell_arithmetic"
  THEN cell_to_face(sh, VMax(cell_flux_norm(sh, flat_flux), regularization))
  ELSE PairNorms(flat_flux, MatVec(orthogonal_face_average(sh), flat_flux))

\* the modes l1_dissipation implements; any other mode falls off the end
\* of the function, which then returns None
DissipationModes == {"cell_arithmetic", "face_arithmetic"}

\* l1_dissipation(flat_flux, mode) for mode in DissipationModes
l1_dissipation(sh, vs, lumping, flat_flux, mode) ==
  IF mode = "cell_arithmetic"
  THEN VSum(MatVec(mass_matrix_cells(sh, vs), cell_flux_norm(sh, flat_flux)))
  ELSE VSum(MatVec(mass_matrix_faces(sh, vs, lumping), vector_face_flux_norm(sh, flat_flux, "face_arithmetic", Zero)))

\* Binding of a call self.l1_dissipation(args...) to the signature
\* (self, flat_flux, mode): Python raises TypeError unless exactly the two
\* arguments are supplied; a mode outside DissipationModes returns None.
l1_dissipation_call(sh, vs, lumping, args) ==
  IF Len(args) # 2 THEN [raised |-> "TypeError", value |-> NaN]
  ELSE IF args[2] \notin DissipationModes THEN [raised |-> "None", value |-> NaN]
  ELSE [raised |-> "no", value |-> l1_dissipation(sh, vs, lumping, args[1], args[2])]

-----------------------------------------------------------------------------
(* ------------------------- the saddle-point systems -------------------- *)

\* length of the solution vector: fluxes, potentials, Lagrange multiplier
num_dofs(sh) == num_faces(sh) + num_cells(sh) + 1

\* split_solution
flux_of(sh, x) == Slice(x, 1, num_faces(sh))

\* position (1-based) of the pinned potential in the solution vector:
\* solution[num_faces + constrained_cell_flat_index]
PinPos(sh) == num_faces(sh) + flat_center_cell(sh) + 1

\* sps.bmat([[A, -div.T, None], [div, None, -potential_constraint.T],
\*           [None, potential_constraint, None]]) for a flux block A
Saddle(sh, vs, A) ==
  LET nf == num_faces(sh)
      nc == num_cells(sh)
  IN  Strict([r \in 1..num_dofs(sh) |-> Strict([c \in 1..num_dofs(sh) |->
        IF r <= nf
        THEN (IF c <= nf THEN A[r][c] ELSE IF c <= nf + nc THEN RNeg(div_entry(sh, vs, c - nf - 1, r - 1)) ELSE Zero)
        ELSE IF r <= nf + nc
        THEN (IF c <= nf THEN div_entry(sh, vs, r - nf - 1, c - 1)
              ELSE IF c = nf + nc + 1 /\ r = PinPos(sh) THEN RNeg(One) ELSE Zero)
        ELSE (IF c = PinPos(sh) THEN One ELSE Zero)])])

\* L * mass_matrix_faces, and diags(d) * mass_matrix_faces (stored entries only)
ScaleRows(d, A) == Strict([r \in 1..Len(A) |-> Strict([c \in 1..Len(A[r]) |-> IF A[r][c] = Zero THEN Zero ELSE RMul(d[r], A[r][c])])])

\* self.broken_darcy (_problem_specific_setup)
broken_darcy(sh, vs) == Saddle(sh, vs, Strict([r \in 1..num_faces(sh) |-> ZeroVec(num_faces(sh))]))

\* the matrix factorised as l_scheme_mixed_darcy_lu for a given L
l_scheme_mixed_darcy(sh, vs, lumping, L) == Saddle(sh, vs, ScaleRows(Strict([f \in 1..num_faces(sh) |-> L]), mass_matrix_faces(sh, vs, lumping)))

\* rhs = concatenate(zeros(num_faces), mass_matrix_cells.dot(flat_mass_diff), zeros(1))
Rhs(sh, vs, flat_mass_diff) == ZeroVec(num_faces(sh)) \o MatVec(mass_matrix_cells(sh, vs), flat_mass_diff) \o <<Zero>>

-----------------------------------------------------------------------------
(* --------------------------------- options ----------------------------- *)

\* self.options.get(key, default)
OptGet(options, key, default) == IF key \in DOMAIN options THEN options[key] ELSE default

\* defaults of the options (a tolerance 10 ** -k is kept as k)
DefaultNumIter == 100

DefaultTolExp == 6

DefaultTolDistanceUpdateExp == 12

DefaultMaxIterIncreaseDiff == 20

DefaultLFactor == Rat(2, 1)

DefaultLMax == Rat(100000000, 1)

\* self.regularization (__init__) and lumping (_setup)
Regularization(options) == OptGet(options, "regularization", Zero)

Lumping(options) == OptGet(options, "lumping", TRUE)

\* mode of the Newton residual and jacobian
NewtonMode(options) == OptGet(options, "mode", "face_arithmetic")

-----------------------------------------------------------------------------
(* -------------------------- linear solvers ----------------------------- *)

\* Outcomes of splu(A).solve(b), s = LinSolve(A, b): the exact solution;
\* RuntimeError when A is exactly singular; when A or b holds inf or NaN
\* SuperLU gives no guarantee, and either raises or returns NaN.
LuOutcomesOf(s) ==
  IF s.status = "ok" THEN {[raised |-> "no", x |-> s.x]}
  ELSE IF s.status = "singular" THEN {[raised |-> "RuntimeError", x |-> s.x]}
  ELSE {[raised |-> "no", x |-> s.x], [raised |-> "RuntimeError", x |-> s.x]}

\* the size of the error an inexact multigrid solve may leave in one unknown
AmgError == Rat(1, 32)

\* the error vector: AmgError in unknown j of n
AmgErrorIn(j, n) == Strict([i \in 1..n |-> IF i = j THEN AmgError ELSE Zero])

\* |A e| < 10 ** -k * |b|, norms as their squares
Admissible(A, b, e, k) == LtTol(RDiv(NormSq(MatVec(A, e)), NormSq(b)), 2 * k)

\* Outcomes of pyamg's ml.solve(b, tol=10 ** -k), s = LinSolve(A, b): an
\* iterate x whose residual satisfies |b - A x| < tol * |b|, here the exact
\* solution or the exact solution off by AmgError in one unknown.
AmgOutcomesOf(A, b, k, s) ==
  IF s.status = "ok"
  THEN {[raised |-> "no", x |-> s.x]}
       \cup {[raised |-> "no", x |-> VAdd(s.x, AmgErrorIn(j, Len(b)))] : j \in {i \in 1..Len(b) : Admissible(A, b, AmgErrorIn(i, Len(b)), k)}}
  ELSE LuOutcomesOf(s)

\* the outcomes of the direct (amg = FALSE) or of the multigrid solver
SolverOutcomes(amg, A, b, k) == IF amg THEN AmgOutcomesOf(A, b, k, LinSolve(A, b)) ELSE LuOutcomesOf(LinSolve(A, b))

-----------------------------------------------------------------------------
(* ------------------------ WassersteinDistanceNewton -------------------- *)

\* np.maximum(self.vector_face_flux_norm(flat_flux, mode), self.regularization)
flat_flux_norm(sh, options, x) ==
  VMax(vector_face_flux_norm(sh, flux_of(sh, x), NewtonMode(options), Regularization(options)), Regularization(options))

\* u / v, entry by entry
VDiv(u, v) == Strict([f \in 1..Len(u) |-> RDiv(u[f], v[f])])

\* residual(rhs, solution)
residual(sh, vs, options, rhs, x) ==
  VSub(VSub(rhs, MatVec(broken_darcy(sh, vs), x)),
       MatVec(mass_matrix_faces(sh, vs, Lumping(options)), VDiv(flux_of(sh, x), flat_flux_norm(sh, options, x))) \o ZeroVec(num_cells(sh) + 1))

\* np.maximum(self.L, 1.0 / flat_flux_norm)
LMaxInv(L, norm) == Strict([f \in 1..Len(norm) |-> RMax(L, RInv(norm[f]))])

\* jacobian(solution): flux block diags(np.maximum(self.L, 1.0 / flat_flux_norm)) * mass_matrix_faces
jacobian(sh, vs, options, L, x) ==
  Saddle(sh, vs, ScaleRows(LMaxInv(L, flat_flux_norm(sh, options, x)), mass_matrix_faces(sh, vs, Lumping(options))))

\* darcy_jacobian(): flux block L_init * mass_matrix_faces
darcy_jacobian(sh, vs, options) ==
  Saddle(sh, vs, ScaleRows(Strict([f \in 1..num_faces(sh) |-> OptGet(options, "L_init", One)]), mass_matrix_faces(sh, vs, Lumping(options))))

\* self.D = jacobian[num_faces:, :num_faces] (setup_infrastructure): the
\* divergence rows followed by the empty row of the multiplier
DBlock(sh, vs) == div(sh, vs) \o <<ZeroVec(num_faces(sh))>>

\* A[lo-1:, lo-1:] of a square matrix
TrailingBlock(A, lo) == Strict([r \in 1..(Len(A) - lo + 1) |-> Slice(A[lo + r - 1], lo, Len(A))])

\* self.jacobian_subblock = jacobian[num_faces:, num_faces:]
jacobian_subblock(sh, vs) == TrailingBlock(broken_darcy(sh, vs), num_faces(sh) + 1)

\* D * J_inv * D.T, entry (a, b): over the faces stored in both rows
SchurEntry(D, J_inv, a, b) ==
  SumOver(Strict([f \in 1..Len(J_inv) |-> RMul(RMul(D[a][f], J_inv[f]), D[b][f])]), {f \in 1..Len(J_inv) : D[a][f] # Zero /\ D[b][f] # Zero}, Len(J_inv))

\* sub + D * J_inv * D.T (a sum only where the product stores an entry)
SchurComplement(sub, D, J_inv) ==
  Strict([a \in 1..Len(sub) |-> Strict([b \in 1..Len(sub) |->
     IF \A f \in 1..Len(J_inv) : D[a][f] = Zero \/ D[b][f] = Zero THEN sub[a][b] ELSE RAdd(sub[a][b], SchurEntry(D, J_inv, a, b))])])

\* remove_flux with D and J_inv at hand
remove_flux_with(sh, vs, r, D, J_inv) ==
  [reduced_jacobian |-> SchurComplement(jacobian_subblock(sh, vs), D, J_inv),
   reduced_residual |-> VSub(Slice(r, Len(J_inv) + 1, Len(r)), MatVec(D, VMul(J_inv, Slice(r, 1, Len(J_inv))))),
   J_inv |-> J_inv]

\* remove_flux(jacobian, residual): Schur complement with respect to the
\* flux block; returns reduced jacobian, reduced residual and J_inv
remove_flux(sh, vs, J, r) == remove_flux_with(sh, vs, r, DBlock(sh, vs), Strict([f \in 1..num_faces(sh) |-> RInv(J[f][f])]))

\* np.unique of a set of integers: its members in increasing order
np_unique(S) == Strict([k \in 1..Cardinality(S) |-> CHOOSE x \in S : Cardinality({y \in S : y < x}) = k - 1])

\* The scipy.sparse.csc_matrix that holds the entries of M at the positions
\* (row, column) of stored, 0-based: data and indices column by column with
\* increasing rows, indptr[j] the number of entries before column j.
csc_matrix(M, stored) ==
  LET order == Strict([k \in 1..Cardinality(stored) |->
                 CHOOSE e \in stored : Cardinality({g \in stored : g[2] < e[2] \/ (g[2] = e[2] /\ g[1] < e[1])}) = k - 1])
  IN  [data |-> Strict([k \in 1..Len(order) |-> M[order[k][1] + 1][order[k][2] + 1]]),
       indices |-> Strict([k \in 1..Len(order) |-> order[k][1]]),
       indptr |-> Strict([j \in 1..(Len(M) + 1) |-> Cardinality({g \in stored : g[2] < j - 1})]),
       shape |-> <<Len(M), Len(M)>>]

\* the entry A[r, c] of a CSC matrix (0-based)
csc_entry(A, r, c) ==
  LET at == {k \in (A.indptr[c + 1] + 1)..A.indptr[c + 2] : A.indices[k] = r}
  IN  IF at = {} THEN Zero ELSE A.data[CHOOSE k \in at : TRUE]

\* the positions at which jacobian_subblock + D.dot(J_inv.dot(D.T)) stores
\* an entry
ReducedStored(sub, D) ==
  {e \in (0..(Len(sub) - 1)) \X (0..(Len(sub) - 1)) :
     \/ sub[e[1] + 1][e[2] + 1] # Zero
     \/ \E f \in 1..Len(D[1]) : D[e[1] + 1][f] # Zero /\ D[e[2] + 1][f] # Zero}

\* row indices left as they are
indices_not_shifted(indices, constrained) == indices

\* fully_reduced_jacobian_indices[fully_reduced_jacobian_indices >
\*                                constrained_cell_flat_index] -= 1
indices_shifted(indices, constrained) ==
  Strict([k \in 1..Len(indices) |-> IF indices[k] > constrained THEN indices[k] - 1 ELSE indices[k]])

\* setup_infrastructure, step 3: the entries of the reduced jacobian in the
\* column and in the row of the constrained cell are deleted from data and
\* indices, indptr is lowered behind every deleted entry and made unique
fully_reduced(J, constrained) ==
  LET nnz == Len(J.data)
      rm_row_entries == {k \in 0..(nnz - 1) : J.indptr[constrained + 1] <= k /\ k < J.indptr[constrained + 2]}
      rm_col_entries == {k \in 0..(nnz - 1) : J.indices[k + 1] = constrained}
      rm_indices == np_unique(rm_row_entries \cup rm_col_entries)
      rm_rows == Strict([i \in 1..Len(rm_indices) |->
                    CHOOSE j \in 0..(Len(J.indptr) - 1) :
                      /\ J.indptr[j + 1] <= rm_indices[i]
                      /\ \A l \in (j + 1)..(Len(J.indptr) - 1) : J.indptr[l + 1] > rm_indices[i]])
      kept == np_unique((0..(nnz - 1)) \ (rm_row_entries \cup rm_col_entries))
      lowered == Strict([j \in 1..Len(J.indptr) |-> J.indptr[j] - Cardinality({i \in 1..Len(rm_rows) : rm_rows[i] + 1 <= j - 1})])
      indptr == np_unique({lowered[j] : j \in 1..Len(lowered)})
  IN  [raised |-> IF Len(indptr) = Len(J.indptr) - 2 THEN "no" ELSE "AssertionError",
       rm_indices |-> rm_indices,
       data |-> Strict([k \in 1..Len(kept) |-> J.data[kept[k] + 1]]),
       indices |-> indices_shifted(Strict([k \in 1..Len(kept) |-> J.indices[kept[k] + 1]]), constrained),
       indptr |-> indptr,
       shape |-> <<Len(indptr) - 1, Len(indptr) - 1>>]

\* setup_infrastructure, steps 1 to 3: the reduced jacobian of the Darcy
\* problem and the fully reduced jacobian
reduced_jacobians(sh, vs, options) ==
  LET red == remove_flux(sh, vs, darcy_jacobian(sh, vs, options), ZeroVec(num_dofs(sh)))
      J == csc_matrix(red.reduced_jacobian, ReducedStored(jacobian_subblock(sh, vs), DBlock(sh, vs)))
  IN  [reduced_jacobian |-> J, fully_reduced_jacobian |-> fully_reduced(J, flat_center_cell(sh))]

\* |a| > 1e-6 as Python evaluates it (False for NaN)
AbsGtMicro(a) == RGt(RAbs(a), Rat(1, 1000000))

\* the cells kept by the fully reduced system (fully_reduced_system_indices),
\* as 1-based positions in the reduced system, in increasing order
KeptCells(sh) == Strict([k \in 1..(num_cells(sh) - 1) |-> IF k <= flat_center_cell(sh) THEN k ELSE k + 1])

\* remove_lagrange_multiplier(jacobian, residual, solution): the reduced
\* jacobian without row and column of the pinned cell and of the multiplier
remove_lagrange_multiplier(sh, red, x) ==
  IF AbsGtMicro(red.reduced_residual[num_cells(sh) + 1]) \/ AbsGtMicro(x[PinPos(sh)])
  THEN [raised |-> "NotImplementedError", A |-> <<>>, b |-> <<>>]
  ELSE [raised |-> "no", A |-> Strict([a \in 1..Len(KeptCells(sh)) |-> Strict([b \in 1..Len(KeptCells(sh)) |-> red.reduced_jacobian[KeptCells(sh)[a]][KeptCells(sh)[b]]])]),
        b |-> Strict([a \in 1..Len(KeptCells(sh)) |-> red.reduced_residual[KeptCells(sh)[a]]])]

\* an embedding that fills the first cells, the pinned cell among them, and
\* leaves the last cell and the multiplier 0
EmbedFirstCells(sh, y) ==
  Strict([k \in 1..(num_cells(sh) + 1) |-> IF k >= num_cells(sh) THEN Zero ELSE y[k]])

\* the vector over the reduced system (potentials, multiplier) that holds y
\* at the kept cells and 0 at the pinned cell and at the multiplier:
\* update[self.fully_reduced_system_indices_full] = y on a zero update
EmbedKept(sh, y) ==
  Strict([k \in 1..(num_cells(sh) + 1) |->
     IF k = flat_center_cell(sh) + 1 \/ k = num_cells(sh) + 1 THEN Zero
     ELSE IF k <= flat_center_cell(sh) THEN y[k] ELSE y[k - 1]])

\* update[flux_indices] = J_inv.dot(residual[flux_indices] + DT.dot(update[reduced_system_indices]))
FullUpdate(sh, vs, r, J_inv, y) ==
  VMul(J_inv, VAdd(Slice(r, 1, Len(J_inv)), MatVec(Transpose(DBlock(sh, vs), Len(J_inv)), y))) \o y

\* the solvers on the system reduced to the potentials: fr is the result of
\* remove_lagrange_multiplier
potential_step(sh, vs, options, r, red, fr) ==
  IF fr.raised # "no"
  THEN {[raised |-> fr.raised, update |-> ZeroVec(num_dofs(sh)), residual |-> r]}
  ELSE {[raised |-> o.raised, update |-> FullUpdate(sh, vs, r, red.J_inv, EmbedKept(sh, o.x)), residual |-> r] :
          o \in SolverOutcomes(OptGet(options, "linear_solver", "lu") = "amg-potential", fr.A, fr.b, OptGet(options, "linear_solver_tol", DefaultTolExp))}

\* the solvers on a reduced system: red is the result of remove_flux
reduced_step(sh, vs, options, x, r, red) ==
  IF OptGet(options, "linear_solver", "lu") \in {"lu-flux-reduced", "amg-flux-reduced"}
  THEN {[raised |-> o.raised, update |-> FullUpdate(sh, vs, r, red.J_inv, o.x), residual |-> r] :
          o \in SolverOutcomes(OptGet(options, "linear_solver", "lu") = "amg-flux-reduced", red.reduced_jacobian, red.reduced_residual,
                               OptGet(options, "linear_solver_tol", DefaultTolExp))}
  ELSE potential_step(sh, vs, options, r, red, remove_lagrange_multiplier(sh, red, x))

\* the solve of linearization_step for residual r and approximate jacobian J
solve_step(sh, vs, options, x, r, J) ==
  IF OptGet(options, "linear_solver", "lu") = "lu"
  THEN {[raised |-> o.raised, update |-> o.x, residual |-> r] : o \in LuOutcomesOf(LinSolve(J, r))}
  ELSE reduced_step(sh, vs, options, x, r, remove_flux(sh, vs, J, r))

\* linearization_step(solution, rhs, iter) for linear_solver in
\* LinearSolvers: the set of its outcomes [raised, update, residual]
linearization_step(sh, vs, options, L, x, rhs, iter) ==
  solve_step(sh, vs, options, x,
             IF iter = 0 THEN rhs ELSE residual(sh, vs, options, rhs, x),
             IF iter = 0 THEN darcy_jacobian(sh, vs, options) ELSE jacobian(sh, vs, options, L, x))

\* an assignment that would replace the whole iterate, the potentials and
\* the multiplier set to zero
newton_set_iterate(sh, x, mixed_flux) == mixed_flux \o ZeroVec(num_cells(sh) + 1)

\* solution_i[: self.num_faces] = <mixed flux>: the Anderson result replaces
\* the flux block of the Newton iterate
newton_set_flux(sh, x, mixed_flux) == mixed_flux \o Slice(x, num_faces(sh) + 1, num_dofs(sh))

-----------------------------------------------------------------------------
(* ------------------------ WassersteinDistanceBregman ------------------- *)

\* cell_scaling = np.maximum(norm - 1 / self.L, 0) / (norm + self.regularization)
cell_scaling(norm, L, regularization) ==
  Strict([c \in 1..Len(norm) |-> RDiv(RMax(RSub(norm[c], RInv(L)), Zero), RAdd(norm[c], regularization))])

\* _shrink(flat_flux), mode "cell_arithmetic" (the default, the only mode
\* _solve uses)
shrink(sh, options, L, flat_flux) ==
  VMul(cell_to_face(sh, cell_scaling(cell_flux_norm(sh, flat_flux), L, Regularization(options))), flat_flux)

\* rhs_i: rhs with the flux rows set to L * mass_matrix_faces.dot(flat_flux_i)
bregman_rhs(sh, vs, options, L, x, rhs) ==
  VScale(L, MatVec(mass_matrix_faces(sh, vs, Lumping(options)), flux_of(sh, x))) \o Slice(rhs, num_faces(sh) + 1, num_dofs(sh))

\* the outcome of steps 1 and 2 from the outcome o of the solve
ShrinkOutcome(sh, options, L, rhs_i, o) ==
  [raised |-> o.raised, intermediate |-> o.x, rhs_i |-> rhs_i,
   new_flat_flux |-> IF o.raised = "no" THEN shrink(sh, options, L, flux_of(sh, o.x)) ELSE ZeroVec(num_faces(sh))]

\* the solve for the right-hand side rhs_i
solve_shrink_with(sh, vs, options, L, lu_L, rhs_i) ==
  {ShrinkOutcome(sh, options, L, rhs_i, o) : o \in LuOutcomesOf(LinSolve(l_scheme_mixed_darcy(sh, vs, Lumping(options), lu_L), rhs_i))}

\* steps 1 and 2 of an iteration: solve with the stored factorisation (the
\* one computed for lu_L), then shrink the flux of the intermediate solution
bregman_solve_shrink(sh, vs, options, L, lu_L, x, rhs) ==
  solve_shrink_with(sh, vs, options, L, lu_L, bregman_rhs(sh, vs, options, L, x, rhs))

\* solution_i = intermediate_solution_i.copy(); solution_i[: num_faces] = new_flat_flux_i
bregman_set_flux(sh, intermediate, new_flat_flux) == new_flat_flux \o Slice(intermediate, num_faces(sh) + 1, num_dofs(sh))

-----------------------------------------------------------------------------
(* ----------------------- darsia.AndersonAcceleration ------------------- *)
(* The class is not part of the sources at hand; it is modelled after the  *)
(* specification (section 4.7) for depth 1: it keeps the previous input    *)
(* and increment, an application with iteration 0 starts a new history.    *)

\* self.anderson after _setup: depth 0 stands for None
AndersonNew(aa_depth) == [depth |-> aa_depth, hist |-> <<>>]

\* the mixing coefficient of depth 1: the least-squares solution of
\* min |fk - gamma * dF|
AndersonGamma(dF, fk) == IF NormSq(dF) = Zero THEN Zero ELSE RDiv(Dot(dF, fk), NormSq(dF))

\* the mixed iterate from the previous history entry
AndersonMix(gk, fk, prev) == VSub(gk, VScale(AndersonGamma(VSub(fk, prev.f), fk), VSub(gk, prev.g)))

\* self.anderson(gk, fk, iteration): the mixed iterate and the new state
AndersonApply(a, gk, fk, iteration, call) ==
  IF iteration = 0 \/ a.hist = <<>>
  THEN [out |-> gk, state |-> [a EXCEPT !.hist = <<[g |-> gk, f |-> fk, call |-> call]>>], mixed_with |-> 0]
  ELSE [out |-> AndersonMix(gk, fk, a.hist[1]), state |-> [a EXCEPT !.hist = <<[g |-> gk, f |-> fk, call |-> call]>>], mixed_with |-> a.hist[1].call]

\* the attributes assigned by _setup
setup(sh, vs, opts) ==
  [num_cells |-> num_cells(sh),
   num_faces |-> num_faces(sh),
   num_faces_axis |-> <<num_vertical_faces(sh), num_horizontal_faces(sh)>>,
   flat_center_cell |-> flat_center_cell(sh),
   connectivity |-> Strict([f \in 1..num_faces(sh) |-> <<connectivity(sh, f - 1, 0), connectivity(sh, f - 1, 1)>>]),
   div |-> div(sh, vs),
   mass_matrix_cells |-> mass_matrix_cells(sh, vs),
   mass_matrix_faces |-> mass_matrix_faces(sh, vs, Lumping(opts)),
   orthogonal_face_average |-> orthogonal_face_average(sh)]

-----------------------------------------------------------------------------
(* ------------------------------ inputs --------------------------------- *)

\* largest num_iter an options dict sets explicitly, and the number of
\* calls made on one solver object
MaxIter == 4

MaxCalls == 2

Shapes == {<<1, 2>>, <<1, 3>>}

VoxelSizes == {<<1, 1>>}

\* flat mass differences img_1.img - img_2.img of equal total mass
MassDiffs(sh) ==
  IF sh = <<1, 2>> THEN {<<Zero, Zero>>, <<One, RNeg(One)>>}
  ELSE {<<Zero, Zero, Zero>>, <<One, RNeg(One), Zero>>, <<One, Zero, RNeg(One)>>}

\* options dicts without the key num_iter
NewtonOptions ==
  { [verbose |-> FALSE],
    [mode |-> "cell_arithmetic"],
    [mode |-> "cell_arithmetic", linear_solver |-> "lu-flux-reduced"],
    [mode |-> "cell_arithmetic", linear_solver |-> "lu-potential"],
    [mode |-> "cell_arithmetic", linear_solver |-> "amg-flux-reduced", linear_solver_tol |-> 1, num_iter |-> 1],
    [mode |-> "cell_arithmetic", linear_solver |-> "amg-flux-reduced", linear_solver_tol |-> 1, num_iter |-> 2],
    [mode |-> "cell_arithmetic", linear_solver |-> "amg-potential", linear_solver_tol |-> 1, num_iter |-> 1],
    [mode |-> "cell_arithmetic", linear_solver |-> "amg-potential", linear_solver_tol |-> 1, num_iter |-> 2],
    [mode |-> "cell_arithmetic", aa_depth |-> 1] }

BregmanOptions ==
  { [verbose |-> FALSE],
    [L_max |-> Rat(2, 1)],
    [L |-> Rat(2, 1)],
    [update_l |-> FALSE, L |-> Rat(4, 1)],
    [aa_depth |-> 1],
    [regularization |-> Rat(1, 4)] }

\* the options dicts a solver object is constructed with: the dicts above
\* that set num_iter (the inexact solves, whose iterates are followed for
\* two iterations), and the others with every num_iter in 0..MaxIter
OptionsOf(m) ==
  LET base == IF m = "newton" THEN NewtonOptions ELSE BregmanOptions
      fixed == {o \in base : "num_iter" \in DOMAIN o}
  IN  fixed \cup {[k \in DOMAIN o \cup {"num_iter"} |-> IF k = "num_iter" THEN n ELSE o[k]] : o \in base \ fixed, n \in 0..MaxIter}

\* options = {}: every option at its default (num_iter = 100)
DefaultOptions == [verbose |-> FALSE]

\* The Euclidean norms of the model are exact: a mass difference other than
\* zero is admitted where every norm is taken of cell fluxes with a single
\* nonzero component (one-row grids, cell-based modes), and where the
\* options bound the number of iterations by MaxIter.
ExactNorms(method, options, mode, m) ==
  IF \A c \in 1..Len(m) : m[c] = Zero THEN TRUE
  ELSE IF OptGet(options, "num_iter", DefaultNumIter) > MaxIter THEN FALSE
  ELSE IF mode # "cell_arithmetic" THEN FALSE
  ELSE IF method = "bregman" THEN TRUE
  ELSE NewtonMode(options) = "cell_arithmetic"

-----------------------------------------------------------------------------
(* ------------- images and their metadata (image/image.py) -------------- *)

\* Optional values: None, and a value that is present
None == <<>>

Some(x) == <<x>>

\* Image._is_none: a list that contains None, or None itself
is_none(item, is_list) == IF is_list THEN \E i \in 1..Len(item) : item[i] = None ELSE item = None

\* Image.set_time: the value of self.time (dates count seconds)
set_time(series, date, time_num, time) ==
  IF time = None
  THEN IF series
       THEN IF is_none(date, TRUE) THEN [i \in 1..time_num |-> None]
            ELSE [i \in 1..time_num |-> Some(date[i][1] - date[1][1])]
       ELSE Some(0)
  ELSE time

\* Image.__init__(img, **kwargs); the array is kept as its shape
Image_init(class, img, kwargs) ==
  LET space_dim == OptGet(kwargs, "dim", 2)
      indexing == OptGet(kwargs, "indexing", "ij")
      series == OptGet(kwargs, "series", FALSE)
      time_dim == IF series THEN 1 ELSE 0
      time_num == IF series THEN img[space_dim + 1] ELSE 1
      date == OptGet(kwargs, "date", IF series THEN [i \in 1..time_num |-> None] ELSE None)
      time == set_time(series, date, time_num, OptGet(kwargs, "time", None))
      scalar == OptGet(kwargs, "scalar", FALSE)
      range_dim == IF scalar THEN 0 ELSE Len(img) - space_dim - time_dim
      asserted == /\ indexing = (IF space_dim = 2 THEN "ij" ELSE "ijk")
                  /\ series => ~(is_none(date, TRUE) /\ is_none(time, TRUE))
                  /\ Len(img) = space_dim + time_dim + range_dim
  IN  [raised |-> IF asserted THEN "no" ELSE "AssertionError",
       class |-> class,
       img |-> img,
       space_dim |-> space_dim,
       indexing |-> indexing,
       dimensions |-> OptGet(kwargs, "dimensions", [i \in 1..space_dim |-> 1]),
       origin |-> OptGet(kwargs, "origin", [i \in 1..space_dim |-> 0]),
       series |-> series,
       date |-> date,
       time |-> time,
       scalar |-> scalar,
       range_dim |-> range_dim]

\* the keyword arguments with some of them replaced
Override(kwargs, fixed) == [k \in DOMAIN kwargs \cup DOMAIN fixed |-> IF k \in DOMAIN fixed THEN fixed[k] ELSE kwargs[k]]

\* ScalarImage.__init__
ScalarImage_init(img, kwargs) ==
  LET base == Image_init("ScalarImage", img, Override(kwargs, [scalar |-> TRUE]))
  IN  [k \in DOMAIN base \cup {"name"} |->
         IF k = "name" THEN OptGet(kwargs, "name", None)
         ELSE IF k = "raised" /\ base.raised = "no" /\ base.range_dim # 0 THEN "AssertionError"
         ELSE base[k]]

\* str.upper on the names of the color spaces
upper(s) ==
  CASE s = "rgb" -> "RGB"
    [] s = "bgr" -> "BGR"
    [] s = "hsv" -> "HSV"
    [] OTHER -> s

\* OpticalImage.__init__
OpticalImage_init(img, kwargs) ==
  LET base == Image_init("OpticalImage", img, Override(kwargs, [dim |-> 2, indexing |-> "ij", scalar |-> FALSE]))
      color_space == upper(OptGet(kwargs, "color_space", "RGB"))
  IN  [k \in DOMAIN base \cup {"color_space"} |->
         IF k = "color_space" THEN color_space
         ELSE IF k = "raised" /\ base.raised = "no"
              THEN IF ~(base.range_dim = 1 /\ img[Len(img)] = 3) THEN "AssertionError"
                   ELSE IF color_space \notin {"RGB", "BGR", "HSV"} THEN "NotImplementedError"
                   ELSE "no"
         ELSE base[k]]

\* type(image)(img, **kwargs)
New(class, img, kwargs) ==
  CASE class = "ScalarImage" -> ScalarImage_init(img, kwargs)
    [] class = "OpticalImage" -> OpticalImage_init(img, kwargs)
    [] OTHER -> Image_init("Image", img, kwargs)

\* image.metadata(), of Image, ScalarImage and OpticalImage
metadata(image) ==
  LET generic == [dim |-> image.space_dim,
                  indexing |-> image.indexing,
                  dimensions |-> image.dimensions,
                  origin |-> image.origin,
                  series |-> image.series,
                  scalar |-> image.scalar,
                  date |-> image.date,
                  time |-> image.time]
  IN  CASE image.class = "ScalarImage" -> Override(generic, [name |-> image.name])
        [] image.class = "OpticalImage" -> Override(generic, [color_space |-> image.color_space])
        [] OTHER -> generic

\* darsia.CoordinateSystem(image), as far as a transformation reads it
CoordinateSystem(image) ==
  [dim |-> image.space_dim,
   shape |-> SubSeq(image.img, 1, image.space_dim),
   dimensions |-> image.dimensions,
   coordinate_of_origin_voxel |-> image.origin]

\* the call of a correction on an image: with overwrite = False the array
\* of a copy is corrected and the image passed in is left alone
BaseCorrection_call(image, array_dst, overwrite) ==
  IF overwrite
  THEN [image |-> [image EXCEPT !.img = array_dst], returned |-> [image EXCEPT !.img = array_dst]]
  ELSE [image |-> image, returned |-> [image EXCEPT !.img = array_dst]]

\* the shape of _AngularConservativeAffineCorrection.correct_array's result
correct_array(coordinatesystem_dst, array_src, dim) ==
  coordinatesystem_dst.shape \o SubSeq(array_src, dim + 1, Len(array_src))

\* a correct_metadata that leaves the origin of the source in place
correct_metadata_keeps_origin(coordinatesystem_dst, image) ==
  Override(metadata(image), [dimensions |-> coordinatesystem_dst.dimensions])

\* CoordinateTransformation.correct_metadata
correct_metadata(coordinatesystem_dst, image) ==
  Override(metadata(image), [dimensions |-> coordinatesystem_dst.dimensions,
                             origin |-> coordinatesystem_dst.coordinate_of_origin_voxel])

-----------------------------------------------------------------------------
(* ------------------------------- state --------------------------------- *)

VARIABLES
  method,            \* "newton" or "bregman": the class of the solver object
  shape,             \* self.shape
  voxel_size,        \* self.voxel_size
  options,           \* self.options
  L,                 \* self.L (NaN while the attribute does not exist)
  lu_L,              \* the L that l_scheme_mixed_darcy_lu was factorised for
  anderson,          \* self.anderson
  l1_args,           \* the arguments of the solvers' calls of l1_dissipation
  l1_mode,           \* the mode these calls pass, where they pass one
  pc,                \* position in __call__ / _solve
  exc,               \* the exception a call ended with
  calls,             \* number of calls made on the object
  flat_mass_diff,    \* np.ravel(img_1.img - img_2.img)
  rhs,
  iter,              \* the loop variable; -1 while it is unbound
  solution_i,
  old_solution_i,
  intermediate_solution_i,
  new_flat_flux_i,
  old_flat_flux_i,
  rhs_i,
  update_i,
  residual_i,
  old_distance,
  new_distance,
  error,
  convergence_history,
  num_neg_diff,
  tol_distance,      \* the local tol_distance, as the exponent k of 10 ** -k
  status,
  exit,              \* how the loop was left: "exhausted", "criterion", "L_max"
  criterion,         \* per executed iteration: did the stopping condition hold
  aa_mixed_with,     \* the call whose history entry the last Anderson step mixed in
  L_prev_call,       \* self.L when the previous call ended
  attrs,             \* the attributes that _setup and its successors assign
  op,                \* the method last called on its own, with its arguments
  ret,               \* what that call returned or raised
  image,             \* the image a CoordinateTransformation is called on
  coordinatesystem_dst,                  \* self.coordinatesystem_dst
  transformed_image_with_original_meta,  \* the locals of __call__
  transformed_meta,
  transformed_image  \* the image __call__ returned

vars == <<method, shape, voxel_size, options, L, lu_L, anderson, l1_args, l1_mode, pc, exc, calls, flat_mass_diff, rhs, iter, solution_i, old_solution_i, intermediate_solution_i, new_flat_flux_i, old_flat_flux_i, rhs_i, update_i, residual_i, old_distance, new_distance, error, convergence_history, num_neg_diff, tol_distance, status, exit, criterion, aa_mixed_with, L_prev_call, attrs, op, ret, image, coordinatesystem_dst, transformed_image_with_original_meta, transformed_meta, transformed_image>>

\* the state of a call of a CoordinateTransformation
transform_vars == <<image, coordinatesystem_dst, transformed_image_with_original_meta, transformed_meta, transformed_image>>

\* what no step of a solve changes: the fields of the object (but L), the
\* record of the methods called on their own, and the transformation
object_vars == <<method, shape, voxel_size, options, l1_args, l1_mode, attrs, op, ret, transform_vars>>

NoError == [residual |-> NaN, increment |-> NaN, distance_increment |-> NaN]

NoStatus == [converged |-> FALSE, number_iterations |-> -1, distance |-> NaN]

EmptyHistory(m) ==
  IF m = "newton"
  THEN [distance |-> <<>>, residual |-> <<>>, decomposed_residual |-> <<>>, increment |-> <<>>, decomposed_increment |-> <<>>, distance_increment |-> <<>>, timing |-> <<>>]
  ELSE [distance |-> <<>>, mass_residual |-> <<>>, force |-> <<>>, flux_increment |-> <<>>, aux_increment |-> <<>>, force_increment |-> <<>>, distance_increment |-> <<>>, timing |-> <<>>]

\* no method has been called on its own
NoOp == [name |-> "none"]

NoRet == [raised |-> "no", value |-> <<>>]

\* no image, no metadata
NoImage == [class |-> "none"]

NoMeta == [dim |-> 0]

\* no CoordinateTransformation has been constructed
NoTransformation ==
  /\ image = NoImage
  /\ coordinatesystem_dst = [dim |-> 0]
  /\ transformed_image_with_original_meta = NoImage
  /\ transformed_meta = NoMeta
  /\ transformed_image = NoImage

\* The fields of a solver object on which nothing has been called.
InitObject ==
  /\ L = NaN
  /\ lu_L = NaN
  /\ anderson = AndersonNew(OptGet(options, "aa_depth", 0))
  /\ op = NoOp
  /\ ret = NoRet
  /\ exc = "none"
  /\ calls = 0
  /\ flat_mass_diff = <<>>
  /\ rhs = <<>>
  /\ iter = -1
  /\ solution_i = <<>>
  /\ old_solution_i = <<>>
  /\ intermediate_solution_i = <<>>
  /\ new_flat_flux_i = <<>>
  /\ old_flat_flux_i = <<>>
  /\ rhs_i = <<>>
  /\ update_i = <<>>
  /\ residual_i = <<>>
  /\ old_distance = NaN
  /\ new_distance = NaN
  /\ error = NoError
  /\ convergence_history = EmptyHistory(method)
  /\ num_neg_diff = 0
  /\ tol_distance = DefaultTolExp
  /\ status = NoStatus
  /\ exit = "none"
  /\ criterion = <<>>
  /\ aa_mixed_with = 0
  /\ L_prev_call = NaN

\* The object after __init__ (which runs _setup).  The sources at hand:
\* both loops call self.l1_dissipation(solution_i).
Init ==
  /\ method \in {"newton", "bregman"}
  /\ options \in OptionsOf(method) \cup {DefaultOptions}
  /\ shape \in Shapes
  /\ voxel_size \in VoxelSizes
  /\ pc = "idle"
  /\ attrs = setup(shape, voxel_size, options)
  /\ InitObject
  /\ NoTransformation
  /\ l1_args = "solution"
  /\ l1_mode = "none"

\* The loops with the distance calls given a flux and a mode:
\* self.l1_dissipation(solution_i[: self.num_faces], mode).
LoopInit ==
  /\ method \in {"newton", "bregman"}
  /\ options \in OptionsOf(method) \cup {DefaultOptions}
  /\ shape \in Shapes
  /\ voxel_size \in VoxelSizes
  /\ pc = "idle"
  /\ attrs = setup(shape, voxel_size, options)
  /\ InitObject
  /\ NoTransformation
  /\ l1_args = "flux_and_mode"
  /\ l1_mode \in DissipationModes

\* the argument list of a distance call on the iterate x
DistanceArgs(x) == IF l1_args = "solution" THEN <<x>> ELSE <<flux_of(shape, x), l1_mode>>

DistanceCall(x) == l1_dissipation_call(shape, voxel_size, Lumping(options), DistanceArgs(x))

-----------------------------------------------------------------------------
(* ------------------------ __call__ and the loop heads ------------------ *)

NumIter == OptGet(options, "num_iter", DefaultNumIter)

TolResidual == OptGet(options, "tol_residual", DefaultTolExp)

TolIncrement == OptGet(options, "tol_increment", DefaultTolExp)

\* an L that a call would inherit from the call before it
keep_L(opts, current) == IF current = NaN THEN OptGet(opts, "L", One) ELSE current

\* self.L = self.options.get("L", 1.0): _problem_specific_setup and _solve
\* of the Bregman solver, _solve of the Newton solver; current is self.L before
reset_L(opts, current) == OptGet(opts, "L", One)

\* __call__(img_1, img_2) up to the loop of _solve: the mass difference,
\* _problem_specific_setup (for Bregman: L and the factorisation of K_L),
\* then the preamble of _solve (L, rhs, zero solution, empty history).
Call ==
  /\ pc \in {"idle", "returned", "raised"}
  /\ calls < MaxCalls
  /\ \E m \in MassDiffs(shape) :
       /\ IF l1_args = "solution" THEN TRUE ELSE ExactNorms(method, options, l1_mode, m)
       /\ flat_mass_diff' = m
       /\ rhs' = Rhs(shape, voxel_size, m)
  /\ calls' = calls + 1
  /\ L_prev_call' = L
  /\ L' = reset_L(options, L)
  /\ lu_L' = IF method = "bregman" THEN L' ELSE lu_L
  /\ pc' = "for"
  /\ exc' = "none"
  /\ iter' = -1
  /\ solution_i' = ZeroVec(num_dofs(shape))
  /\ old_flat_flux_i' = IF method = "bregman" THEN ZeroVec(num_faces(shape)) ELSE <<>>
  /\ old_solution_i' = <<>>
  /\ intermediate_solution_i' = <<>>
  /\ new_flat_flux_i' = <<>>
  /\ rhs_i' = <<>>
  /\ update_i' = <<>>
  /\ residual_i' = <<>>
  /\ old_distance' = NaN
  /\ new_distance' = NaN
  /\ error' = NoError
  /\ convergence_history' = EmptyHistory(method)
  /\ num_neg_diff' = 0
  /\ tol_distance' = OptGet(options, "tol_distance", DefaultTolExp)
  /\ status' = NoStatus
  /\ exit' = "none"
  /\ criterion' = <<>>
  /\ aa_mixed_with' = 0
  /\ UNCHANGED <<object_vars, anderson>>

\* for iter in range(num_iter): the next index, or the end of the loop
ForIter ==
  /\ IF iter + 1 < NumIter
     THEN /\ iter' = iter + 1
          /\ pc' = "old_distance"
          /\ exit' = exit
     ELSE /\ iter' = iter
          /\ pc' = "status"
          /\ exit' = "exhausted"
  /\ UNCHANGED <<object_vars, L, lu_L, anderson, exc, calls, flat_mass_diff, rhs, solution_i, old_solution_i, intermediate_solution_i, new_flat_flux_i, old_flat_flux_i, rhs_i, update_i, residual_i, old_distance, new_distance, error, convergence_history, num_neg_diff, tol_distance, status, criterion, aa_mixed_with, L_prev_call>>

NewtonFor ==
  /\ pc = "for"
  /\ method = "newton"
  /\ ForIter

BregmanFor ==
  /\ pc = "for"
  /\ method = "bregman"
  /\ ForIter

\* an exception leaves _solve and __call__
Raise(e) ==
  /\ pc' = "raised"
  /\ exc' = e

\* old_solution_i = solution_i.copy(); old_distance = self.l1_dissipation(...)
NewtonOldDistance ==
  /\ pc = "old_distance"
  /\ method = "newton"
  /\ \E d \in {DistanceCall(solution_i)} :
       IF d.raised # "no"
       THEN /\ Raise(d.raised)
            /\ UNCHANGED <<old_distance>>
       ELSE /\ pc' = "step"
            /\ old_distance' = d.value
            /\ UNCHANGED <<exc>>
  /\ old_solution_i' = solution_i
  /\ UNCHANGED <<object_vars, L, lu_L, anderson, calls, flat_mass_diff, rhs, iter, solution_i, intermediate_solution_i, new_flat_flux_i, old_flat_flux_i, rhs_i, update_i, residual_i, new_distance, error, convergence_history, num_neg_diff, tol_distance, status, exit, criterion, aa_mixed_with, L_prev_call>>

\* old_distance = self.l1_dissipation(...)
BregmanOldDistance ==
  /\ pc = "old_distance"
  /\ method = "bregman"
  /\ \E d \in {DistanceCall(solution_i)} :
       IF d.raised # "no"
       THEN /\ Raise(d.raised)
            /\ UNCHANGED <<old_distance>>
       ELSE /\ pc' = "step"
            /\ old_distance' = d.value
            /\ UNCHANGED <<exc>>
  /\ UNCHANGED <<object_vars, L, lu_L, anderson, calls, flat_mass_diff, rhs, iter, solution_i, old_solution_i, intermediate_solution_i, new_flat_flux_i, old_flat_flux_i, rhs_i, update_i, residual_i, new_distance, error, convergence_history, num_neg_diff, tol_distance, status, exit, criterion, aa_mixed_with, L_prev_call>>

-----------------------------------------------------------------------------
(* --------------------------- the loop bodies --------------------------- *)

\* (error[0] < tol_residual and error[2] < tol_increment) or
\* error[4] < tol_distance (Newton; error[5] in the Bregman solver);
\* the two norms are kept as their squares
stop_condition(res_sq, inc_sq, dist_inc, tr, ti, td) ==
  IF NormLtTol(res_sq, tr) /\ NormLtTol(inc_sq, ti) THEN TRUE ELSE LtTol(dist_inc, td)

\* a break without the guard on iter
newton_break_unguarded(i, cond) == cond

\* if iter > 1 and (...): break
newton_break(i, cond) == i > 1 /\ cond

bregman_break(i, cond) == i > 1 /\ cond

\* an entry of a history list, with the iteration that appended it
Entry(i, v) == [iter |-> i, value |-> v]

\* update_i, residual_i, stats_i = self.linearization_step(solution_i, rhs, iter)
\* solution_i += update_i
NewtonLinearize ==
  /\ pc = "step"
  /\ method = "newton"
  /\ \E o \in linearization_step(shape, voxel_size, options, L, solution_i, rhs, iter) :
       IF o.raised # "no"
       THEN /\ Raise(o.raised)
            /\ UNCHANGED <<update_i, residual_i, solution_i>>
       ELSE /\ pc' = "anderson"
            /\ update_i' = o.update
            /\ residual_i' = o.residual
            /\ solution_i' = VAdd(solution_i, o.update)
            /\ UNCHANGED <<exc>>
  /\ UNCHANGED <<object_vars, L, lu_L, anderson, calls, flat_mass_diff, rhs, iter, old_solution_i, intermediate_solution_i, new_flat_flux_i, old_flat_flux_i, rhs_i, old_distance, new_distance, error, convergence_history, num_neg_diff, tol_distance, status, exit, criterion, aa_mixed_with, L_prev_call>>

\* if self.anderson is not None: solution_i[: self.num_faces] =
\*   self.anderson(solution_i[: self.num_faces], update_i[: self.num_faces], iter)
NewtonAnderson ==
  /\ pc = "anderson"
  /\ method = "newton"
  /\ pc' = "record"
  /\ IF anderson.depth > 0
     THEN \E r \in {AndersonApply(anderson, flux_of(shape, solution_i), flux_of(shape, update_i), iter, calls)} :
            /\ solution_i' = newton_set_flux(shape, solution_i, r.out)
            /\ anderson' = r.state
            /\ aa_mixed_with' = r.mixed_with
     ELSE UNCHANGED <<solution_i, anderson, aa_mixed_with>>
  /\ UNCHANGED <<object_vars, L, lu_L, exc, calls, flat_mass_diff, rhs, iter, old_solution_i, intermediate_solution_i, new_flat_flux_i, old_flat_flux_i, rhs_i, update_i, residual_i, old_distance, new_distance, error, convergence_history, num_neg_diff, tol_distance, status, exit, criterion, L_prev_call>>

\* [np.linalg.norm(a, 2) for a in self.split_solution(v)], as squares
decomposed(sh, v) ==
  <<NormSq(Slice(v, 1, num_faces(sh))), NormSq(Slice(v, num_faces(sh) + 1, num_dofs(sh) - 1)), NormSq(Slice(v, num_dofs(sh), num_dofs(sh)))>>

\* the error list of the Newton loop; norms as their squares
newton_error(sh, res, inc, new_d, old_d) ==
  [residual |-> NormSq(res), decomposed_residual |-> decomposed(sh, res),
   increment |-> NormSq(inc), decomposed_increment |-> decomposed(sh, inc),
   distance_increment |-> RAbs(RSub(new_d, old_d))]

\* seven lists of which one, timing, would grow at its front
newton_history_timing_first(h, i, new_d, e) ==
  [distance |-> Append(h.distance, Entry(i, new_d)),
   residual |-> Append(h.residual, Entry(i, e.residual)),
   decomposed_residual |-> Append(h.decomposed_residual, Entry(i, e.decomposed_residual)),
   increment |-> Append(h.increment, Entry(i, e.increment)),
   decomposed_increment |-> Append(h.decomposed_increment, Entry(i, e.decomposed_increment)),
   distance_increment |-> Append(h.distance_increment, Entry(i, e.distance_increment)),
   timing |-> <<Entry(i, <<"setup", "solve", "anderson">>)>> \o h.timing]

\* convergence_history[...].append(...), seven lists
newton_history_append(h, i, new_d, e) ==
  [distance |-> Append(h.distance, Entry(i, new_d)),
   residual |-> Append(h.residual, Entry(i, e.residual)),
   decomposed_residual |-> Append(h.decomposed_residual, Entry(i, e.decomposed_residual)),
   increment |-> Append(h.increment, Entry(i, e.increment)),
   decomposed_increment |-> Append(h.decomposed_increment, Entry(i, e.decomposed_increment)),
   distance_increment |-> Append(h.distance_increment, Entry(i, e.distance_increment)),
   timing |-> Append(h.timing, Entry(i, <<"setup", "solve", "anderson">>))]

\* new_distance, increment, error, history, stopping criterion
NewtonRecord ==
  /\ pc = "record"
  /\ method = "newton"
  /\ \E d \in {DistanceCall(solution_i)} :
     \E e \in {newton_error(shape, residual_i, VSub(solution_i, old_solution_i), d.value, old_distance)} :
     \E cond \in {stop_condition(e.residual, e.increment, e.distance_increment, TolResidual, TolIncrement, tol_distance)} :
       IF d.raised # "no"
       THEN /\ Raise(d.raised)
            /\ UNCHANGED <<new_distance, error, convergence_history, criterion, exit>>
       ELSE /\ new_distance' = d.value
            /\ error' = e
            /\ convergence_history' = newton_history_append(convergence_history, iter, d.value, e)
            /\ criterion' = Append(criterion, cond)
            /\ pc' = IF newton_break(iter, cond) THEN "status" ELSE "for"
            /\ exit' = IF newton_break(iter, cond) THEN "criterion" ELSE exit
            /\ UNCHANGED <<exc>>
  /\ UNCHANGED <<object_vars, L, lu_L, anderson, calls, flat_mass_diff, rhs, iter, solution_i, old_solution_i, intermediate_solution_i, new_flat_flux_i, old_flat_flux_i, rhs_i, update_i, residual_i, old_distance, num_neg_diff, tol_distance, status, aa_mixed_with, L_prev_call>>

\* "converged": iter < num_iter
converged_flag(i, num_iter) == i < num_iter

\* the status dict of the Newton solver (reading the unbound iter raises)
NewtonStatus ==
  /\ pc = "status"
  /\ method = "newton"
  /\ IF iter = -1
     THEN /\ Raise("UnboundLocalError")
          /\ UNCHANGED <<status>>
     ELSE /\ pc' = "returned"
          /\ status' = [converged |-> converged_flag(iter, NumIter), number_iterations |-> iter, distance |-> new_distance,
                        residual |-> error.residual, mass_conservation_residual |-> error.decomposed_residual,
                        increment |-> error.increment, flux_increment |-> error.decomposed_increment,
                        distance_increment |-> RAbs(RSub(new_distance, old_distance))]
          /\ UNCHANGED <<exc>>
  /\ UNCHANGED <<object_vars, L, lu_L, anderson, calls, flat_mass_diff, rhs, iter, solution_i, old_solution_i, intermediate_solution_i, new_flat_flux_i, old_flat_flux_i, rhs_i, update_i, residual_i, old_distance, new_distance, error, convergence_history, num_neg_diff, tol_distance, exit, criterion, aa_mixed_with, L_prev_call>>

\* steps 1 and 2: intermediate_solution_i = lu.solve(rhs_i);
\* new_flat_flux_i = self._shrink(intermediate_flat_flux_i)
BregmanSolveShrink ==
  /\ pc = "step"
  /\ method = "bregman"
  /\ \E o \in bregman_solve_shrink(shape, voxel_size, options, L, lu_L, solution_i, rhs) :
       IF o.raised # "no"
       THEN /\ Raise(o.raised)
            /\ UNCHANGED <<intermediate_solution_i, new_flat_flux_i, rhs_i>>
       ELSE /\ pc' = "anderson"
            /\ intermediate_solution_i' = o.intermediate
            /\ new_flat_flux_i' = o.new_flat_flux
            /\ rhs_i' = o.rhs_i
            /\ UNCHANGED <<exc>>
  /\ UNCHANGED <<object_vars, L, lu_L, anderson, calls, flat_mass_diff, rhs, iter, solution_i, old_solution_i, old_flat_flux_i, update_i, residual_i, old_distance, new_distance, error, convergence_history, num_neg_diff, tol_distance, status, exit, criterion, aa_mixed_with, L_prev_call>>

\* if self.anderson is not None: flux_inc = new_flat_flux_i - flat_flux_i;
\*   new_flat_flux_i = self.anderson(new_flat_flux_i, flux_inc, iter)
BregmanAnderson ==
  /\ pc = "anderson"
  /\ method = "bregman"
  /\ pc' = "record"
  /\ IF anderson.depth > 0
     THEN \E r \in {AndersonApply(anderson, new_flat_flux_i, VSub(new_flat_flux_i, flux_of(shape, solution_i)), iter, calls)} :
            /\ new_flat_flux_i' = r.out
            /\ anderson' = r.state
            /\ aa_mixed_with' = r.mixed_with
     ELSE UNCHANGED <<new_flat_flux_i, anderson, aa_mixed_with>>
  /\ UNCHANGED <<object_vars, L, lu_L, exc, calls, flat_mass_diff, rhs, iter, solution_i, old_solution_i, intermediate_solution_i, old_flat_flux_i, rhs_i, update_i, residual_i, old_distance, new_distance, error, convergence_history, num_neg_diff, tol_distance, status, exit, criterion, L_prev_call>>

\* the error list of the Bregman loop; norms as their squares.  The
\* auxiliary and force variables are never updated, their increments are 0.
bregman_error(sh, vs, x, r_i, new_flux, old_flux, new_d, old_d) ==
  [mass_residual |-> NormSq(Slice(VSub(r_i, MatVec(broken_darcy(sh, vs), x)), num_faces(sh) + 1, num_dofs(sh) - 1)),
   force |-> NormSq(ZeroVec(num_faces(sh))),
   flux_increment |-> NormSq(VSub(new_flux, old_flux)),
   aux_increment |-> NormSq(ZeroVec(num_faces(sh))),
   force_increment |-> NormSq(ZeroVec(num_faces(sh))),
   distance_increment |-> RAbs(RSub(new_d, old_d))]

\* convergence_history[...].append(...), eight lists
bregman_history_append(h, i, new_d, e) ==
  [distance |-> Append(h.distance, Entry(i, new_d)),
   mass_residual |-> Append(h.mass_residual, Entry(i, e.mass_residual)),
   force |-> Append(h.force, Entry(i, e.force)),
   flux_increment |-> Append(h.flux_increment, Entry(i, e.flux_increment)),
   aux_increment |-> Append(h.aux_increment, Entry(i, e.aux_increment)),
   force_increment |-> Append(h.force_increment, Entry(i, e.force_increment)),
   distance_increment |-> Append(h.distance_increment, Entry(i, e.distance_increment)),
   timing |-> Append(h.timing, Entry(i, <<"linearization", "shrink", "anderson">>))]

\* an update of L that leaves the factorisation as it is
update_l_without_splu(opts, cur_L, nnd, grow, new_L) ==
  [L |-> new_L, refactor |-> FALSE, num_neg_diff |-> IF grow THEN 0 ELSE nnd,
   tol_distance |-> OptGet(opts, "tol_distance", DefaultTolDistanceUpdateExp),
   over |-> RGt(new_L, OptGet(opts, "L_max", DefaultLMax))]

\* The block "if update_l:": the local tol_distance is re-read with default
\* 1e-12; L is multiplied by l_factor when the distance stagnates or has
\* increased more than max_iter_increase_diff times; L > L_max ends the loop.
update_l_with(opts, cur_L, nnd, grow, new_L) ==
  [L |-> new_L, refactor |-> grow, num_neg_diff |-> IF grow THEN 0 ELSE nnd,
   tol_distance |-> OptGet(opts, "tol_distance", DefaultTolDistanceUpdateExp),
   over |-> RGt(new_L, OptGet(opts, "L_max", DefaultLMax))]

grown_L(opts, cur_L, grow) == IF grow THEN RMul(cur_L, OptGet(opts, "l_factor", DefaultLFactor)) ELSE cur_L

stagnates(opts, nnd, dist_inc) ==
  IF LtTol(dist_inc, OptGet(opts, "tol_distance", DefaultTolDistanceUpdateExp)) THEN TRUE
  ELSE nnd > OptGet(opts, "max_iter_increase_diff", DefaultMaxIterIncreaseDiff)

bregman_update_l(opts, cur_L, nnd, td, dist_inc) ==
  IF OptGet(opts, "update_l", TRUE)
  THEN update_l_with(opts, cur_L, nnd, stagnates(opts, nnd, dist_inc), grown_L(opts, cur_L, stagnates(opts, nnd, dist_inc)))
  ELSE [L |-> cur_L, refactor |-> FALSE, num_neg_diff |-> nnd, tol_distance |-> td, over |-> FALSE]

\* solution_i, new_distance, error, history, the L update, stopping criterion
BregmanRecord ==
  /\ pc = "record"
  /\ method = "bregman"
  /\ \E x \in {bregman_set_flux(shape, intermediate_solution_i, new_flat_flux_i)} :
     \E d \in {DistanceCall(x)} :
     \E e \in {bregman_error(shape, voxel_size, x, rhs_i, new_flat_flux_i, old_flat_flux_i, d.value, old_distance)} :
     \E u \in {bregman_update_l(options, L, IF RGt(d.value, old_distance) THEN num_neg_diff + 1 ELSE num_neg_diff, tol_distance, e.distance_increment)} :
     \E cond \in {stop_condition(e.mass_residual, e.flux_increment, e.distance_increment, TolResidual, TolIncrement, u.tol_distance)} :
       /\ solution_i' = x
       /\ IF d.raised # "no"
          THEN /\ Raise(d.raised)
               /\ UNCHANGED <<new_distance, error, convergence_history, criterion, exit, num_neg_diff, tol_distance, L, lu_L>>
          ELSE /\ new_distance' = d.value
               /\ error' = e
               /\ convergence_history' = bregman_history_append(convergence_history, iter, d.value, e)
               /\ num_neg_diff' = u.num_neg_diff
               /\ tol_distance' = u.tol_distance
               /\ L' = u.L
               /\ lu_L' = IF u.refactor THEN u.L ELSE lu_L
               /\ criterion' = Append(criterion, cond)
               /\ pc' = IF u.over THEN "status" ELSE IF bregman_break(iter, cond) THEN "status" ELSE "for"
               /\ exit' = IF u.over THEN "L_max" ELSE IF bregman_break(iter, cond) THEN "criterion" ELSE exit
               /\ UNCHANGED <<exc>>
  /\ UNCHANGED <<object_vars, anderson, calls, flat_mass_diff, rhs, iter, old_solution_i, intermediate_solution_i, new_flat_flux_i, old_flat_flux_i, rhs_i, update_i, residual_i, old_distance, status, aa_mixed_with, L_prev_call>>

\* the status dict of the Bregman solver (reading the unbound iter raises)
BregmanStatus ==
  /\ pc = "status"
  /\ method = "bregman"
  /\ IF iter = -1
     THEN /\ Raise("UnboundLocalError")
          /\ UNCHANGED <<status>>
     ELSE /\ pc' = "returned"
          /\ status' = [converged |-> converged_flag(iter, NumIter), number_iterations |-> iter, distance |-> new_distance,
                        mass_conservation_residual |-> error.mass_residual, flux_increment |-> error.flux_increment,
                        distance_increment |-> RAbs(RSub(new_distance, old_distance))]
          /\ UNCHANGED <<exc>>
  /\ UNCHANGED <<object_vars, L, lu_L, anderson, calls, flat_mass_diff, rhs, iter, solution_i, old_solution_i, intermediate_solution_i, new_flat_flux_i, old_flat_flux_i, rhs_i, update_i, residual_i, old_distance, new_distance, error, convergence_history, num_neg_diff, tol_distance, exit, criterion, aa_mixed_with, L_prev_call>>

-----------------------------------------------------------------------------
(* ---------------------------- specifications --------------------------- *)

\* The sources at hand: each distance call raises, the loop bodies beyond
\* it are never entered.
Next ==
  \/ Call
  \/ NewtonFor
  \/ NewtonOldDistance
  \/ NewtonStatus
  \/ BregmanFor
  \/ BregmanOldDistance
  \/ BregmanStatus

Spec == Init /\ [][Next]_vars

\* The loops with well-formed distance calls.
LoopNext ==
  \/ Call
  \/ NewtonFor
  \/ NewtonOldDistance
  \/ NewtonLinearize
  \/ NewtonAnderson
  \/ NewtonRecord
  \/ NewtonStatus
  \/ BregmanFor
  \/ BregmanOldDistance
  \/ BregmanSolveShrink
  \/ BregmanAnderson
  \/ BregmanRecord
  \/ BregmanStatus

LoopSpec == LoopInit /\ [][LoopNext]_vars


-----------------------------------------------------------------------------
(* --------------- _setup and the methods called on their own ------------ *)

\* largest number of rows and of columns of a grid
MaxGrid == 3

GridShapes == {<<ny, nx>> : ny \in 1..MaxGrid, nx \in 1..MaxGrid}

GridVoxelSizes == {<<1, 1>>, <<1, 2>>, <<2, 1>>, <<2, 3>>}

GridOptions == {[lumping |-> TRUE], [lumping |-> FALSE]}

\* self.potential_constraint: one row with a single 1.0
potential_constraint(sh) == Strict([c \in 1..num_cells(sh) |-> IF c - 1 = flat_center_cell(sh) THEN One ELSE Zero])

\* the attributes assigned by _problem_specific_setup
problem_specific_setup(sh, vs) ==
  [constrained_cell_flat_index |-> flat_center_cell(sh),
   potential_constraint |-> potential_constraint(sh),
   broken_darcy |-> broken_darcy(sh, vs)]

\* the index arrays assigned by setup_infrastructure (step 4)
setup_infrastructure(sh) ==
  [fully_reduced_system_indices |-> Strict([k \in 1..Len(KeptCells(sh)) |-> KeptCells(sh)[k] - 1]),
   fully_reduced_system_indices_full |-> Strict([k \in 1..Len(KeptCells(sh)) |-> num_faces(sh) + KeptCells(sh)[k] - 1])]

\* The regularised harmonic mean of x and y that cell_to_face forms:
\* x * y / (scale * 0.5 * (x + y) + (2 * sign(0.5 * (x + y)) + 1) * 1e-10),
\* kept as the product, the scaled mean and the multiple of 1e-10 (x, y finite)
harmonic_mean(x, y, scale) ==
  [product |-> RMul(x, y),
   mean |-> RMul(scale, RMul(Rat(1, 2), RAdd(x, y))),
   regularization |-> 2 * ISgn(RAdd(x, y)[1]) + 1]

\* cell_to_face(cell_qty, "harmonic"): the mean over cell_qty[:, :-1] and
\* cell_qty[:, 1:] is taken as it is, the mean over cell_qty[:-1, :] and
\* cell_qty[1:, :] is halved before it is regularised
cell_to_face_harmonic(sh, cell_qty) ==
  Strict([f \in 1..num_faces(sh) |->
     harmonic_mean(At(cell_qty, connectivity(sh, f - 1, 0)), At(cell_qty, connectivity(sh, f - 1, 1)),
                   IF IsVertical(sh, f - 1) THEN One ELSE Rat(1, 2))])

\* cell_to_face(cell_qty, mode) for any mode
cell_to_face_call(sh, cell_qty, mode) ==
  IF mode = "arithmetic" THEN [raised |-> "no", value |-> cell_to_face(sh, cell_qty)]
  ELSE IF mode = "harmonic" THEN [raised |-> "no", value |-> cell_to_face_harmonic(sh, cell_qty)]
  ELSE [raised |-> "ValueError", value |-> <<>>]

\* vector_face_flux_norm(flat_flux, mode) for any mode
vector_face_flux_norm_call(sh, flat_flux, mode, regularization) ==
  IF mode \in {"cell_arithmetic", "cell_harmonic"}
  THEN cell_to_face_call(sh, VMax(cell_flux_norm(sh, flat_flux), regularization), IF mode = "cell_arithmetic" THEN "arithmetic" ELSE "harmonic")
  ELSE IF mode = "face_arithmetic"
  THEN [raised |-> "no", value |-> vector_face_flux_norm(sh, flat_flux, mode, regularization)]
  ELSE [raised |-> "ValueError", value |-> <<>>]

\* the modes passed to the three methods that take one
Modes == {"arithmetic", "harmonic", "cell_arithmetic", "cell_harmonic", "face_arithmetic", "face_harmonic"}

\* cell quantities and fluxes whose norms are rational: zero, the cell
\* numbers, and the unit flux on face 0 of a grid with two rows and columns
CellQtys(sh) == {ZeroVec(num_cells(sh)), Strict([c \in 1..num_cells(sh) |-> Rat(c, 1)])}

Fluxes(sh) ==
  {ZeroVec(num_faces(sh))} \cup
  (IF Ny(sh) >= 2 /\ Nx(sh) >= 2 THEN {Strict([f \in 1..num_faces(sh) |-> IF f = 1 THEN One ELSE Zero])} ELSE {})

\* values of residual[-1] and of the potential at the pinned cell
PinValues == {Zero, Rat(1, 10000000), One, NaN}

\* A solver object inside __init__, before _setup.  An object is followed
\* through its setup and one call of a method on its own (what these
\* methods return does not depend on earlier calls).
UnitInit ==
  /\ method \in {"newton", "bregman"}
  /\ options \in GridOptions
  /\ shape \in GridShapes
  /\ voxel_size \in GridVoxelSizes
  /\ pc = "__init__"
  /\ attrs = <<>>
  /\ InitObject
  /\ NoTransformation
  /\ l1_args = "flux_and_mode"
  /\ l1_mode = "none"

solve_vars == <<L, lu_L, anderson, exc, calls, flat_mass_diff, rhs, iter, solution_i, old_solution_i, intermediate_solution_i, new_flat_flux_i, old_flat_flux_i, rhs_i, update_i, residual_i, old_distance, new_distance, error, convergence_history, num_neg_diff, tol_distance, status, exit, criterion, aa_mixed_with, L_prev_call>>

\* self._setup(); sps.csc_matrix refuses the index arrays of the orthogonal
\* face average when one of them is negative, and the constructor is left
\* by ValueError
Setup ==
  /\ pc = "__init__"
  /\ IF orthogonal_face_average_cols_negative(shape)
     THEN /\ Raise("ValueError")
          /\ UNCHANGED <<attrs>>
     ELSE /\ pc' = "idle"
          /\ attrs' = setup(shape, voxel_size, options)
          /\ UNCHANGED <<exc>>
  /\ UNCHANGED <<method, shape, voxel_size, options, l1_args, l1_mode, op, ret, L, lu_L, anderson, calls, flat_mass_diff, rhs, iter, solution_i, old_solution_i, intermediate_solution_i, new_flat_flux_i, old_flat_flux_i, rhs_i, update_i, residual_i, old_distance, new_distance, error, convergence_history, num_neg_diff, tol_distance, status, exit, criterion, aa_mixed_with, L_prev_call, transform_vars>>

\* self._problem_specific_setup(mass_diff)
ProblemSpecificSetup ==
  /\ pc = "idle"
  /\ op = NoOp
  /\ pc' = "problem"
  /\ attrs' = attrs @@ problem_specific_setup(shape, voxel_size)
  /\ UNCHANGED <<method, shape, voxel_size, options, l1_args, l1_mode, op, ret, solve_vars, transform_vars>>

\* self.setup_infrastructure(), WassersteinDistanceNewton
SetupInfrastructure ==
  /\ pc = "problem"
  /\ method = "newton"
  /\ pc' = "infrastructure"
  /\ attrs' = attrs @@ setup_infrastructure(shape) @@ reduced_jacobians(shape, voxel_size, options)
  /\ UNCHANGED <<method, shape, voxel_size, options, l1_args, l1_mode, op, ret, solve_vars, transform_vars>>

\* self.cell_to_face(cell_qty, mode)
CellToFace ==
  /\ pc = "idle"
  /\ op = NoOp
  /\ \E q \in CellQtys(shape), mode \in Modes :
       /\ op' = [name |-> "cell_to_face", cell_qty |-> q, mode |-> mode]
       /\ ret' = cell_to_face_call(shape, q, mode)
  /\ UNCHANGED <<method, shape, voxel_size, options, l1_args, l1_mode, attrs, pc, solve_vars, transform_vars>>

\* self.vector_face_flux_norm(flat_flux, mode)
VectorFaceFluxNorm ==
  /\ pc = "idle"
  /\ op = NoOp
  /\ \E u \in Fluxes(shape), mode \in Modes :
       /\ op' = [name |-> "vector_face_flux_norm", flat_flux |-> u, mode |-> mode]
       /\ ret' = vector_face_flux_norm_call(shape, u, mode, Regularization(options))
  /\ UNCHANGED <<method, shape, voxel_size, options, l1_args, l1_mode, attrs, pc, solve_vars, transform_vars>>

\* self.l1_dissipation(flat_flux, mode)
L1Dissipation ==
  /\ pc = "idle"
  /\ op = NoOp
  /\ \E u \in Fluxes(shape), mode \in Modes :
       /\ op' = [name |-> "l1_dissipation", flat_flux |-> u, mode |-> mode]
       /\ ret' = l1_dissipation_call(shape, voxel_size, Lumping(options), <<u, mode>>)
  /\ UNCHANGED <<method, shape, voxel_size, options, l1_args, l1_mode, attrs, pc, solve_vars, transform_vars>>

\* the residual and the solution handed to remove_flux and
\* remove_lagrange_multiplier: zero but for residual[-1] = r and the
\* potential at the pinned cell = p
PinResidual(sh, r) == ZeroVec(num_dofs(sh) - 1) \o <<r>>

PinSolution(sh, p) == Strict([k \in 1..num_dofs(sh) |-> IF k = PinPos(sh) THEN p ELSE Zero])

\* self.remove_lagrange_multiplier(reduced_jacobian, reduced_residual, solution)
\* on the system that remove_flux reduces the Darcy jacobian to
RemoveLagrangeMultiplier ==
  /\ pc = "infrastructure"
  /\ op = NoOp
  /\ \E r \in PinValues, p \in PinValues :
       /\ op' = [name |-> "remove_lagrange_multiplier", residual_last |-> r, solution_pin |-> p]
       /\ ret' = remove_lagrange_multiplier(shape, remove_flux(shape, voxel_size, darcy_jacobian(shape, voxel_size, options), PinResidual(shape, r)), PinSolution(shape, p))
  /\ UNCHANGED <<method, shape, voxel_size, options, l1_args, l1_mode, attrs, pc, solve_vars, transform_vars>>

UnitNext ==
  \/ Setup
  \/ ProblemSpecificSetup
  \/ SetupInfrastructure
  \/ CellToFace
  \/ VectorFaceFluxNorm
  \/ L1Dissipation
  \/ RemoveLagrangeMultiplier

UnitSpec == UnitInit /\ [][UnitNext]_vars

-----------------------------------------------------------------------------
(* ----- CoordinateTransformation.__call__ (image/coordinatetransformation.py) ----- *)

\* the keyword arguments images are constructed with
GeometryKwargs ==
  {[dim |-> 2],
   [dim |-> 2, dimensions |-> <<3, 4>>],
   [dim |-> 2, origin |-> <<0, 2>>],
   [dim |-> 2, dimensions |-> <<3, 4>>, origin |-> <<0, 2>>]}

TimeKwargs ==
  {[series |-> FALSE],
   [series |-> FALSE, date |-> Some(10)],
   [series |-> FALSE, time |-> Some(5)],
   [series |-> FALSE, date |-> Some(10), time |-> Some(5)],
   [series |-> TRUE],
   [series |-> TRUE, date |-> <<Some(10), Some(13)>>],
   [series |-> TRUE, time |-> <<Some(0), Some(7)>>],
   [series |-> TRUE, date |-> <<Some(10), Some(13)>>, time |-> <<Some(0), Some(7)>>]}

ClassKwargs ==
  {[class |-> "Image", kwargs |-> [scalar |-> FALSE]],
   [class |-> "Image", kwargs |-> [scalar |-> TRUE]],
   [class |-> "ScalarImage", kwargs |-> [scalar |-> TRUE]],
   [class |-> "ScalarImage", kwargs |-> [scalar |-> TRUE, name |-> Some("baseline")]],
   [class |-> "OpticalImage", kwargs |-> [scalar |-> FALSE]],
   [class |-> "OpticalImage", kwargs |-> [scalar |-> FALSE, color_space |-> "rgb"]],
   [class |-> "OpticalImage", kwargs |-> [scalar |-> FALSE, color_space |-> "HSV"]]}

\* the shape of an array of 3 x 4 voxels that fits the keyword arguments:
\* two time slices for a series, three channels for data that is not scalar
ArrayFor(kwargs) ==
  <<3, 4>> \o (IF kwargs.series THEN <<2>> ELSE <<>>) \o (IF kwargs.scalar THEN <<>> ELSE <<3>>)

\* the images that can be constructed from these arguments
SourceImages ==
  {im \in {New(c.class, ArrayFor(Override(t, c.kwargs)), Override(Override(g, t), c.kwargs)) :
             g \in GeometryKwargs, t \in TimeKwargs, c \in ClassKwargs} : im.raised = "no"}

\* the coordinate systems of the images that stand for the target canvas
DestinationSystems ==
  {CoordinateSystem(Image_init("Image", sh, [dimensions |-> d, origin |-> o, scalar |-> TRUE])) :
     sh \in {<<3, 4>>, <<6, 8>>}, d \in {<<3, 4>>, <<30, 40>>}, o \in {<<0, 0>>, <<0, 2>>}}

\* A transformation to coordinatesystem_dst, about to be called on image.
TransformInit ==
  /\ image \in SourceImages
  /\ coordinatesystem_dst \in DestinationSystems
  /\ transformed_image_with_original_meta = NoImage
  /\ transformed_meta = NoMeta
  /\ transformed_image = NoImage
  /\ pc = "__call__"
  /\ method = "none"
  /\ options = DefaultOptions
  /\ shape = <<>>
  /\ voxel_size = <<>>
  /\ attrs = <<>>
  /\ InitObject
  /\ l1_args = "none"
  /\ l1_mode = "none"

solver_vars == <<method, shape, voxel_size, options, l1_args, l1_mode, attrs, op, ret, solve_vars>>

\* transformed_image_with_original_meta =
\*   self.angular_conservative_correction(image, overwrite=False)
AngularConservativeCorrection ==
  /\ pc = "__call__"
  /\ LET called == BaseCorrection_call(image, correct_array(coordinatesystem_dst, image.img, image.space_dim), FALSE)
     IN  /\ image' = called.image
         /\ transformed_image_with_original_meta' = called.returned
  /\ pc' = "correct_metadata"
  /\ UNCHANGED <<coordinatesystem_dst, transformed_meta, transformed_image, solver_vars>>

\* transformed_meta = self.correct_metadata(image)
CorrectMetadata ==
  /\ pc = "correct_metadata"
  /\ transformed_meta' = correct_metadata(coordinatesystem_dst, image)
  /\ pc' = "return"
  /\ UNCHANGED <<image, coordinatesystem_dst, transformed_image_with_original_meta, transformed_image, solver_vars>>

\* return type(image)(transformed_image_with_original_meta.img, **transformed_meta)
ReturnTransformed ==
  /\ pc = "return"
  /\ transformed_image' = New(image.class, transformed_image_with_original_meta.img, transformed_meta)
  /\ pc' = "returned"
  /\ UNCHANGED <<image, coordinatesystem_dst, transformed_image_with_original_meta, transformed_meta, solver_vars>>

TransformNext ==
  \/ AngularConservativeCorrection
  \/ CorrectMetadata
  \/ ReturnTransformed

TransformSpec == TransformInit /\ [][TransformNext]_vars

-----------------------------------------------------------------------------
(* ------------------------------ properties ----------------------------- *)

\* the potentials and the multiplier of an iterate
NonFluxBlock(x) == Slice(x, num_faces(shape) + 1, num_dofs(shape))

\* the mass difference of the call is zero in every cell (img_1 = img_2)
EqualInputs == \A c \in 1..Len(flat_mass_diff) : flat_mass_diff[c] = Zero

\* C1: every call of l1_dissipation that the solver loops make supplies a
\* flux vector of length num_faces and a mode that l1_dissipation
\* implements, so that the call is well formed and returns a number.
C1_DistanceCallsWellFormed ==
  pc \in {"old_distance", "record"} =>
    /\ Len(DistanceArgs(solution_i)) = 2
    /\ Len(DistanceArgs(solution_i)[1]) = num_faces(shape)
    /\ DistanceArgs(solution_i)[2] \in DissipationModes

C13_PreconditionEnforced ==
  op.name = "remove_lagrange_multiplier" =>
    (ret.raised = "no" <=> (op.residual_last = Zero /\ op.solution_pin = Zero))

\* C14: cell_to_face, vector_face_flux_norm and l1_dissipation raise an
\* error when called with a mode they do not implement; none of them
\* returns a value or None for such a mode.
C14_UnknownModeRaises ==
  /\ (op.name = "cell_to_face" /\ op.mode \notin {"arithmetic", "harmonic"}) => ret.raised \notin {"no", "None"}
  /\ (op.name = "vector_face_flux_norm" /\ op.mode \notin {"cell_arithmetic", "cell_harmonic", "face_arithmetic"}) => ret.raised \notin {"no", "None"}
  /\ (op.name = "l1_dissipation" /\ op.mode \notin {"cell_arithmetic", "face_arithmetic"}) => ret.raised \notin {"no", "None"}

\* the cells of face f (1-based) as _setup recorded them, as a set
CellsOf(f) == {attrs.connectivity[f][1], attrs.connectivity[f][2]}

\* face f (1-based) is a vertical face
Vertical(f) == f <= attrs.num_faces_axis[1]

\* C16 as stated: with voxel_size = (h_y, h_x), column f of the divergence
\* matrix has exactly two nonzeros, +a_f in the row of the first and -a_f
\* in the row of the second cell of f, with a_f = h_x on vertical faces and
\* a_f = h_y on horizontal faces.
C16_DivergenceColumns ==
  pc \notin {"__init__", "raised"} =>
    \A f \in 1..attrs.num_faces : \A c \in 1..attrs.num_cells :
      attrs.div[c][f] = IF c = attrs.connectivity[f][1] + 1 THEN Rat(IF Vertical(f) THEN voxel_size[2] ELSE voxel_size[1], 1)
                        ELSE IF c = attrs.connectivity[f][2] + 1 THEN Rat(-(IF Vertical(f) THEN voxel_size[2] ELSE voxel_size[1]), 1)
                        ELSE Zero

\* C16, amended: column f of the divergence matrix has exactly two
\* nonzeros, +a_f in the row of the first and -a_f in the row of the second
\* cell of f, with a_f = voxel_size[0] = h_y on vertical faces and
\* a_f = voxel_size[1] = h_x on horizontal faces.
C16_DivergenceColumnsByFaceLength ==
  pc \notin {"__init__", "raised"} =>
    \A f \in 1..attrs.num_faces : \A c \in 1..attrs.num_cells :
      attrs.div[c][f] = IF c = attrs.connectivity[f][1] + 1 THEN Rat(IF Vertical(f) THEN voxel_size[1] ELSE voxel_size[2], 1)
                        ELSE IF c = attrs.connectivity[f][2] + 1 THEN Rat(-(IF Vertical(f) THEN voxel_size[1] ELSE voxel_size[2]), 1)
                        ELSE Zero

\* a set-up grid with faces of both kinds and h_y # h_x
C16_Witness ==
  /\ pc = "idle"
  /\ voxel_size[1] # voxel_size[2]
  /\ attrs.num_faces_axis[1] >= 2
  /\ attrs.num_faces_axis[2] >= 2
  /\ attrs.div[1][1] = Rat(voxel_size[1], 1)

\* C17: _setup numbers the N_y * (N_x - 1) vertical faces first, row by
\* row, the face between the cells (i, j) and (i, j + 1) with connectivity
\* (i * N_x + j, i * N_x + j + 1), and then the (N_y - 1) * N_x horizontal
\* faces, the face between (i, j) and (i + 1, j) with connectivity
\* (i * N_x + j, (i + 1) * N_x + j); n_f is the sum of the two numbers.
C17_FaceNumbering ==
  pc \notin {"__init__", "raised"} =>
    LET ny == shape[1]
        nx == shape[2]
        nv == ny * (nx - 1)
        nh == (ny - 1) * nx
    IN  /\ attrs.num_cells = ny * nx
        /\ attrs.num_faces_axis = <<nv, nh>>
        /\ attrs.num_faces = nv + nh
        /\ Len(attrs.connectivity) = nv + nh
        /\ \A i \in 0..(ny - 1) : \A j \in 0..(nx - 2) :
             attrs.connectivity[i * (nx - 1) + j + 1] = <<i * nx + j, i * nx + j + 1>>
        /\ \A i \in 0..(ny - 2) : \A j \in 0..(nx - 1) :
             attrs.connectivity[nv + i * nx + j + 1] = <<i * nx + j, (i + 1) * nx + j>>

\* a set-up grid that is not square and has several faces of both kinds
C17_Witness ==
  /\ pc = "idle"
  /\ shape[1] # shape[2]
  /\ attrs.num_faces_axis[1] >= 3
  /\ attrs.num_faces_axis[2] >= 3
  /\ attrs.connectivity[attrs.num_faces][2] = attrs.num_cells - 1

\* C18: the potential constraint has length n_c and a single nonzero, 1, at
\* the flat index floor(N_y / 2) * N_x + floor(N_x / 2); the same cell is
\* the constrained cell, and it is the one cell that the indices of the
\* fully reduced system leave out.
C18_PinAtCenter ==
  pc \in {"problem", "infrastructure"} =>
    LET pin == (shape[1] \div 2) * shape[2] + (shape[2] \div 2)
    IN  /\ Len(attrs.potential_constraint) = attrs.num_cells
        /\ \A c \in 1..attrs.num_cells : attrs.potential_constraint[c] = IF c = pin + 1 THEN One ELSE Zero
        /\ attrs.constrained_cell_flat_index = pin
        /\ pc = "infrastructure" =>
             {attrs.fully_reduced_system_indices[k] : k \in 1..Len(attrs.fully_reduced_system_indices)} = (0..(attrs.num_cells - 1)) \ {pin}

\* a Newton object past setup_infrastructure on a grid with an even and an
\* odd extent, whose pinned cell is neither the first nor the last
C18_Witness ==
  /\ pc = "infrastructure"
  /\ shape[1] % 2 # shape[2] % 2
  /\ attrs.constrained_cell_flat_index > 0
  /\ attrs.constrained_cell_flat_index < attrs.num_cells - 1
  /\ Len(attrs.fully_reduced_system_indices) = attrs.num_cells - 1

\* C19: on a grid with N_y >= 2 and N_x >= 2, row f of the orthogonal face
\* average is 1/4 at the faces perpendicular to f that bound one of the two
\* cells of f, and 0 elsewhere; there are four such faces (row sum 1) for a
\* vertical face in an inner row and a horizontal face in an inner column,
\* and two (row sum 1/2) for the others.
C19_OrthogonalAverage ==
  (pc \notin {"__init__", "raised"} /\ shape[1] >= 2 /\ shape[2] >= 2) =>
    \A f \in 1..attrs.num_faces :
      LET nbrs == {g \in 1..attrs.num_faces : Vertical(g) # Vertical(f) /\ CellsOf(g) \cap CellsOf(f) # {}}
          inner == IF Vertical(f) THEN ((f - 1) \div (shape[2] - 1)) \in 1..(shape[1] - 2)
                   ELSE ((f - 1 - attrs.num_faces_axis[1]) % shape[2]) \in 1..(shape[2] - 2)
      IN  /\ \A g \in 1..attrs.num_faces : attrs.orthogonal_face_average[f][g] = IF g \in nbrs THEN Rat(1, 4) ELSE Zero
          /\ Cardinality(nbrs) = IF inner THEN 4 ELSE 2
          /\ VSum(attrs.orthogonal_face_average[f]) = IF inner THEN One ELSE Rat(1, 2)

\* a set-up grid with three rows and three columns or more: it has inner
\* and boundary faces of both kinds
C19_Witness ==
  /\ pc = "idle"
  /\ shape[1] >= 3
  /\ shape[2] >= 3
  /\ VSum(attrs.orthogonal_face_average[1]) = Rat(1, 2)
  /\ VSum(attrs.orthogonal_face_average[shape[2]]) = One

\* C20: with lumping = False the face mass matrix is symmetric, with
\* (2/3) h_x h_y on the diagonal, (1/6) h_x h_y between two different faces
\* of the same orientation that bound a common cell, and 0 elsewhere; with
\* lumping = True it is diagonal with (1/2) h_x h_y on every face.
C20_FaceMassMatrix ==
  pc \notin {"__init__", "raised"} =>
    LET V == voxel_size[1] * voxel_size[2]
        M == attrs.mass_matrix_faces
        coupled(f, g) == f # g /\ Vertical(f) = Vertical(g) /\ CellsOf(f) \cap CellsOf(g) # {}
    IN  /\ Len(M) = attrs.num_faces
        /\ \A f \in 1..attrs.num_faces : \A g \in 1..attrs.num_faces :
             /\ M[f][g] = M[g][f]
             /\ M[f][g] = IF Lumping(options) THEN (IF f = g THEN Rat(V, 2) ELSE Zero)
                          ELSE IF f = g THEN Rat(2 * V, 3)
                          ELSE IF coupled(f, g) THEN Rat(V, 6)
                          ELSE Zero

\* a set-up grid without lumping that has coupled faces of both kinds, and
\* voxels that are not squares
C20_Witness ==
  /\ pc = "idle"
  /\ ~Lumping(options)
  /\ shape[1] >= 3
  /\ shape[2] >= 3
  /\ voxel_size[1] # voxel_size[2]
  /\ attrs.mass_matrix_faces[1][2] # Zero
  /\ attrs.mass_matrix_faces[attrs.num_faces][attrs.num_faces - shape[2]] # Zero

\* C15: the image CoordinateTransformation.__call__ returns has the
\* metadata entries 'origin' and 'dimensions' of the destination coordinate
\* system, every other metadata entry is that of the source image, and no
\* step of the call changes the metadata of the source image.
C15_MetadataOfTransformed ==
  /\ [](pc = "returned" =>
          /\ transformed_image.raised = "no"
          /\ DOMAIN metadata(transformed_image) = DOMAIN metadata(image)
          /\ metadata(transformed_image).origin = coordinatesystem_dst.coordinate_of_origin_voxel
          /\ metadata(transformed_image).dimensions = coordinatesystem_dst.dimensions
          /\ \A k \in DOMAIN metadata(image) \ {"origin", "dimensions"} : metadata(transformed_image)[k] = metadata(image)[k])
  /\ [][(pc \in {"__call__", "correct_metadata", "return"}) => (metadata(image)' = metadata(image))]_vars

\* a returned image of a series of optical images whose source differs
\* from the destination in origin and in dimensions
C15_Witness ==
  /\ pc = "returned"
  /\ image.class = "OpticalImage"
  /\ image.series
  /\ image.origin # coordinatesystem_dst.coordinate_of_origin_voxel
  /\ image.dimensions # coordinatesystem_dst.dimensions
  /\ image.img # transformed_image.img
  /\ transformed_image.origin = coordinatesystem_dst.coordinate_of_origin_voxel

\* C21 as stated: setup_infrastructure deletes the row and the column of the
\* pinned cell and of the multiplier from the (n_c + 1) x (n_c + 1) reduced
\* jacobian, and the fully reduced jacobian has the size n_c x n_c.
C21_FullyReducedSize ==
  pc = "infrastructure" =>
    /\ attrs.reduced_jacobian.shape = <<attrs.num_cells + 1, attrs.num_cells + 1>>
    /\ attrs.fully_reduced_jacobian.raised = "no"
    /\ attrs.fully_reduced_jacobian.shape = <<attrs.num_cells, attrs.num_cells>>

\* C21, amended: setup_infrastructure deletes the row and the column of the
\* pinned cell and of the multiplier from the (n_c + 1) x (n_c + 1) reduced
\* jacobian: the fully reduced jacobian has the size (n_c - 1) x (n_c - 1),
\* its arrays are those of a CSC matrix of that size, and its entries are the
\* entries of the reduced jacobian at the cells other than the pinned one.
C21_FullyReducedSizeLessTwo ==
  pc = "infrastructure" =>
    LET A == attrs.fully_reduced_jacobian
        pin == attrs.constrained_cell_flat_index
        other(a) == IF a < pin THEN a ELSE a + 1
    IN  /\ attrs.reduced_jacobian.shape = <<attrs.num_cells + 1, attrs.num_cells + 1>>
        /\ A.raised = "no"
        /\ A.shape = <<attrs.num_cells - 1, attrs.num_cells - 1>>
        /\ Len(A.indptr) = attrs.num_cells
        /\ A.indptr[1] = 0
        /\ A.indptr[Len(A.indptr)] = Len(A.data)
        /\ Len(A.indices) = Len(A.data)
        /\ \A k \in 1..Len(A.indices) : A.indices[k] \in 0..(attrs.num_cells - 2)
        /\ \A a \in 0..(attrs.num_cells - 2) : \A b \in 0..(attrs.num_cells - 2) :
             csc_entry(A, a, b) = csc_entry(attrs.reduced_jacobian, other(a), other(b))

\* a Newton object past setup_infrastructure on a grid of six cells or more
\* whose pinned cell has cells before and behind it
C21_Witness ==
  /\ pc = "infrastructure"
  /\ attrs.num_cells >= 6
  /\ attrs.constrained_cell_flat_index > 0
  /\ attrs.constrained_cell_flat_index < attrs.num_cells - 1
  /\ Len(attrs.fully_reduced_jacobian.rm_indices) >= 6
  /\ attrs.fully_reduced_jacobian.shape[1] = attrs.num_cells - 1

\* C22: cell_to_face in harmonic mode gives, on every face, vertical or
\* horizontal, with the cell values q_L and q_R and avg = (q_L + q_R) / 2,
\* the value q_L * q_R / (avg + (2 * sign(avg) + 1) * 1e-10).  (A result is
\* held as product, mean and multiple of 1e-10; where the product is 0 the
\* value is 0 whatever the denominator.)
C22_HarmonicSameOnBothAxes ==
  (op.name = "cell_to_face" /\ op.mode = "harmonic") =>
    /\ ret.raised = "no"
    /\ Len(ret.value) = attrs.num_faces
    /\ \A f \in 1..attrs.num_faces :
         LET qL == op.cell_qty[attrs.connectivity[f][1] + 1]
             qR == op.cell_qty[attrs.connectivity[f][2] + 1]
             avg == RMul(Rat(1, 2), RAdd(qL, qR))
         IN  /\ ret.value[f].product = RMul(qL, qR)
             /\ RMul(qL, qR) # Zero =>
                  /\ ret.value[f].mean = avg
                  /\ ret.value[f].regularization = (IF RGt(avg, Zero) THEN 3 ELSE IF RLt(avg, Zero) THEN -1 ELSE 1)

\* the cells joined to a cell of S by a chain of the given pairs
RECURSIVE Joined(_, _)
Joined(S, pairs) ==
  LET T == S \cup {p[1] : p \in {q \in pairs : q[2] \in S}} \cup {p[2] : p \in {q \in pairs : q[1] \in S}}
  IN  IF T = S THEN S ELSE Joined(T, pairs)

\* C23: on a grid with at least one face every column of the divergence
\* matrix sums to 0, and the graph of the cells with the connectivity pairs
\* of the faces as edges is connected (so that only the constant cell fields
\* are annihilated by the transposed divergence).
C23_DivergenceKernel ==
  (pc \notin {"__init__", "raised"} /\ attrs.num_faces >= 1) =>
    /\ \A f \in 1..attrs.num_faces : VSum(Strict([c \in 1..attrs.num_cells |-> attrs.div[c][f]])) = Zero
    /\ \A f \in 1..attrs.num_faces : \E c \in 1..attrs.num_cells : attrs.div[c][f] # Zero
    /\ Joined({0}, {attrs.connectivity[f] : f \in 1..attrs.num_faces}) = 0..(attrs.num_cells - 1)

\* a set-up grid of three rows and columns with voxels that are not squares
C23_Witness ==
  /\ pc = "idle"
  /\ shape[1] >= 3
  /\ shape[2] >= 3
  /\ voxel_size[1] # voxel_size[2]
  /\ attrs.div[1][1] # Zero
  /\ Cardinality(Joined({0}, {attrs.connectivity[f] : f \in 1..attrs.num_faces})) >= 9

C29_ZeroBudgetReturns ==
  [][(pc = "status" /\ NumIter = 0) =>
       (pc' = "returned" /\ solution_i' = ZeroVec(num_dofs(shape)))]_vars

\* C28: the two cell-to-face tables of _setup invert the connectivity: the
\* entry of cell c and side s is the face f with connectivity[f, 1 - s] = c
\* when the cell has a face on that side, and -1 when it has none; no entry
\* is a face that does not bound the cell.
C28_TablesInvertConnectivity ==
  pc \notin {"__init__", "raised"} =>
    \A c \in 0..(attrs.num_cells - 1) : \A s \in {0, 1} :
      LET nv == attrs.num_faces_axis[1]
          vs_ == {f \in 1..nv : attrs.connectivity[f][2 - s] = c}
          hs == {f \in (nv + 1)..attrs.num_faces : attrs.connectivity[f][2 - s] = c}
          v == connectivity_cell_to_vertical_face(shape, c, s)
          h == connectivity_cell_to_horizontal_face(shape, c, s)
      IN  /\ v = IF vs_ = {} THEN -1 ELSE (CHOOSE f \in vs_ : TRUE) - 1
          /\ h = IF hs = {} THEN -1 ELSE (CHOOSE f \in hs : TRUE) - 1

\* C30: on a grid with a single row or a single column the solver object is
\* set up with an orthogonal face average that is the zero matrix, and the
\* face_arithmetic norm of a flux is |u_f| on every face.
C30_NoPerpendicularOnLineGrids ==
  (pc # "__init__" /\ (shape[1] = 1 \/ shape[2] = 1)) =>
    /\ pc # "raised"
    /\ \A f \in 1..attrs.num_faces : \A g \in 1..attrs.num_faces : attrs.orthogonal_face_average[f][g] = Zero
    /\ (op.name = "vector_face_flux_norm" /\ op.mode = "face_arithmetic") =>
         /\ ret.raised = "no"
         /\ \A f \in 1..attrs.num_faces : ret.value[f] = RAbs(op.flat_flux[f])

=============================================================================
